---- MODULE Spec2Model ----
(***************************************************************************)
(* Verification model of the Timbal chat client:                           *)
(*   - Timbal.streamRun, the event decoder of src/timbal/client.ts         *)
(*   - Timbal.request, the retrying transport call of src/timbal/client.ts *)
(*   - TimbalRuntimeProvider, the chat runtime (reducer and coordinator)   *)
(*     of src/components/assistant-ui/timbal-runtime.tsx                   *)
(* Text is modelled as a sequence of characters (one-character strings,    *)
(* and one token per JSON payload), so that chunk boundaries, trimming,    *)
(* prefix stripping and parsing are computed and not assumed.              *)
(***************************************************************************)
EXTENDS Integers, Sequences, FiniteSets, TLC

VARIABLES
  \* ---- Timbal.streamRun (client.ts 426-521)
  srPc,        \* "streaming" | "done" | "threw"
  srError,     \* "none" | "transport" | "parse": what was thrown to the consumer
  srWire,      \* characters the server has written and stream() has not yet yielded
  srWritten,   \* history: the records the server wrote, in order
  srClosed,    \* the server has finished the response body
  srBuffer,    \* `buffer`, the carry-over of streamRun
  srEmitted,   \* the events streamRun has yielded, in order
  srCarried    \* history: some chunk ended inside a line

srVars == <<srPc, srError, srWire, srWritten, srClosed, srBuffer, srEmitted, srCarried>>

VARIABLES
  \* ---- Timbal (client.ts 14-50) and one call of Timbal.request (client.ts 168-210),
  \*      Timbal.stream (212-260) or Timbal.requestFormData (378-409)
  rqSite,            \* which of the three the call is
  cfgRetryAttempts,  \* config.retryAttempts: [set |-> is it configured, n |-> its value]
  cfgRetryDelay,     \* config.retryDelay: [set |-> is it configured, ms |-> its value]
  cfgApiKey,         \* config.apiKey, "" when there is none
  cfgDefaultHeaders, \* the Authorization entry of config.defaultHeaders
  cfgSessionToken,   \* config.sessionToken, "" when there is none
  tbIsReady,         \* _isReady: updateSessionToken has been called
  rqOptionsHeaders,  \* the Authorization entry of the options.headers of the call
  rqSent,            \* history: per fetch() issued, the credentials then and the header sent
  rqPc,              \* "ready" (await this._ready) | "fetching" | "sleeping" | "returned" | "threw"
  rqRetryCount,      \* the retryCount argument of the running invocation
  rqThrown,          \* the error thrown to the caller
  rqLog,             \* history: per settled attempt, its error, retryCount and the decision
  rqSleeps           \* history: the time each sleep() before a retry has taken

rqVars == <<rqSite, cfgRetryAttempts, cfgRetryDelay, cfgApiKey, cfgDefaultHeaders, cfgSessionToken,
           tbIsReady, rqOptionsHeaders, rqSent, rqPc, rqRetryCount, rqThrown, rqLog, rqSleeps>>

VARIABLES
  \* ---- TimbalRuntimeProvider (timbal-runtime.tsx 128-452) and the tokens of
  \*      auth/tokens (part_004 11-12)
  messages,      \* the transcript: [id, role, text, run, len, runId] per message
  isRunning,     \* the status shown to the UI
  abortRef,      \* abortRef.current: the run whose AbortController it holds, 0 for null
  accessToken,   \* "" for null
  refreshToken,  \* "" for null
  runs           \* per invocation of streamAssistantResponse: its locals and position

rtVars == <<messages, isRunning, abortRef, accessToken, refreshToken, runs>>

VARIABLES
  \* ---- auth/tokens (part_004 43-115): concurrent calls of authFetch; they share
  \*      accessToken and refreshToken above
  afCalls,          \* per call of authFetch: its position and what it has seen
  afRefreshPromise, \* refreshPromise: the POST it stands for, 0 for null
  afInFlight,       \* the POSTs to the token endpoint that are in flight
  afResults,        \* history: the result of each POST, in the order they were started
  afLoggedOut       \* history: logout has cleared the tokens and setTokens has not run since

afVars == <<afCalls, afRefreshPromise, afInFlight, afResults, afLoggedOut>>

VARIABLES
  \* ---- one call of Timbal.stream with the signal of its caller and the timer of
  \*      _fetch (client.ts 111-166, 212-260)
  cfgTimeout,          \* config.timeout
  tcOptionsSignal,     \* options.signal of the caller: "none", "live" or "aborted"
  tcPc,                \* where the call stands
  tcControllerAborted, \* controller.signal.aborted of the running _fetch
  tcTimeoutId,         \* timeoutId: "null", or the timer "armed", "cleared" or "fired"
  tcFetchSignal,       \* the signal fetch() was given: "none", "options" or "controller"
  tcRetryCount,        \* the retryCount argument of the running invocation
  tcChunks,            \* the number of chunks the generator has yielded
  tcThrown             \* the error thrown to the caller

tcVars == <<cfgTimeout, tcOptionsSignal, tcPc, tcControllerAborted, tcTimeoutId, tcFetchSignal,
           tcRetryCount, tcChunks, tcThrown>>

VARIABLES
  \* ---- Timbal.getSession (client.ts 307-339) on the client of the rq variables
  gsSession,         \* _session: the cached session, NoSession for null
  gsSessionPromise,  \* _sessionPromise: the GET /me it stands for, 0 for null
  gsRequests,        \* the GET /me requests, in the order they were made
  gsCalls            \* per call of getSession: its position and what it has seen

gsVars == <<gsSession, gsSessionPromise, gsRequests, gsCalls>>

VARIABLES
  \* ---- validateUser (part_004 182-215)
  vuConfigured,      \* whether orgId and projectId are configured
  vuPromise,         \* _validatePromise: the validation it stands for, 0 for null
  vuToken,           \* _validateToken, "" for null
  vuValidations,     \* the validations started, in order: token and position
  vuCalls            \* history: per call of validateUser, its token and its validation

vuVars == <<vuConfigured, vuPromise, vuToken, vuValidations, vuCalls>>

vars == <<srVars, rqVars, rtVars, afVars, tcVars, gsVars, vuVars>>

\* what the actions of one component leave alone: the other components
SrFrame == UNCHANGED <<rqVars, rtVars, afVars, tcVars, gsVars, vuVars>>
RqFrame == UNCHANGED <<srVars, rtVars, afVars, tcVars, vuVars>>
RtFrame == UNCHANGED <<srVars, rqVars, afVars, tcVars, gsVars, vuVars>>
AfFrame == UNCHANGED <<srVars, rqVars, messages, isRunning, abortRef, runs, tcVars, gsVars, vuVars>>
TcFrame == UNCHANGED <<srVars, rqVars, rtVars, afVars, gsVars, vuVars>>
VuFrame == UNCHANGED <<srVars, rqVars, rtVars, afVars, tcVars, gsVars>>
GsFrame == UNCHANGED <<srVars, rqVars, rtVars, afVars, tcVars, vuVars>>

(***************************************************************************)
(* Bounds                                                                  *)
(***************************************************************************)
MaxLines == 3
MaxRetryAttempts == 3
MaxRuns == 3
MaxEvents == 3
MaxCalls == 2

(***************************************************************************)
(* Characters and string primitives                                        *)
(***************************************************************************)
NL == "\n"

\* White space removed by String.prototype.trim
WhiteSpace == {" ", "\r", "\t", NL}

RECURSIVE TrimStart(_)
TrimStart(s) ==
  IF s # <<>> /\ Head(s) \in WhiteSpace THEN TrimStart(Tail(s)) ELSE s

RECURSIVE TrimEnd(_)
TrimEnd(s) ==
  IF s # <<>> /\ s[Len(s)] \in WhiteSpace THEN TrimEnd(SubSeq(s, 1, Len(s) - 1)) ELSE s

\* String.prototype.trim
Trim(s) == TrimEnd(TrimStart(s))

\* String.prototype.startsWith
StartsWith(s, p) == Len(s) >= Len(p) /\ SubSeq(s, 1, Len(p)) = p

\* String.prototype.substring(n)
Substring(s, n) == SubSeq(s, n + 1, Len(s))

\* String.prototype.split("\n"): always at least one segment
RECURSIVE Split(_)
Split(s) ==
  IF \A i \in 1..Len(s) : s[i] # NL
  THEN <<s>>
  ELSE LET i == CHOOSE j \in 1..Len(s) : s[j] = NL /\ \A k \in 1..(j - 1) : s[k] # NL
       IN  <<SubSeq(s, 1, i - 1)>> \o Split(SubSeq(s, i + 1, Len(s)))

Last(q) == q[Len(q)]
Front(q) == SubSeq(q, 1, Len(q) - 1)

RECURSIVE Flatten(_)
Flatten(qq) == IF qq = <<>> THEN <<>> ELSE Head(qq) \o Flatten(Tail(qq))

(***************************************************************************)
(* JavaScript values: [t |-> type tag, v |-> string form]                  *)
(***************************************************************************)
Undef == [t |-> "undefined", v |-> ""]
Str(s) == [t |-> "string", v |-> s]
\* a plain object, v holding its JSON.stringify form
ObjVal(json) == [t |-> "object", v |-> json]
Num(s) == [t |-> "number", v |-> s]

\* ToBoolean
Truthy(x) ==
  \/ x.t = "object"
  \/ x.t = "string" /\ x.v # ""
  \/ x.t = "number" /\ x.v # "0"

\* String(x)
JsString(x) ==
  CASE x.t = "undefined" -> "undefined"
    [] x.t = "object" -> "[object Object]"
    [] OTHER -> x.v

\* typeof x === "string" ? x : JSON.stringify(x ?? {})
StringOrStringify(x) ==
  CASE x.t = "string" -> x.v
    [] x.t = "undefined" -> "{}"
    [] OTHER -> x.v

(***************************************************************************)
(* Run events as JSON.parse returns them.  A field that is absent is Undef. *)
(* path is kept as a character sequence so that includes(".") is computed. *)
(***************************************************************************)
NoPath == [t |-> "undefined", v |-> <<>>]
PathStr(chars) == [t |-> "string", v |-> chars]

NoItem == [present |-> FALSE, type |-> Undef, text_delta |-> Undef, id |-> Undef,
           name |-> Undef, input |-> Undef, input_delta |-> Undef]
TextDeltaItem(text) == [NoItem EXCEPT !.present = TRUE, !.type = Str("text_delta"),
                                      !.text_delta = text]
ToolUseItem(id, name, input) == [NoItem EXCEPT !.present = TRUE, !.type = Str("tool_use"),
                                               !.id = id, !.name = name, !.input = input]
ToolUseDeltaItem(id, delta) == [NoItem EXCEPT !.present = TRUE, !.type = Str("tool_use_delta"),
                                              !.id = id, !.input_delta = delta]

\* one element of output.content
NullBlock == [kind |-> "null", type |-> Undef, id |-> Undef, name |-> Undef,
              input |-> Undef, text |-> Undef]
ToolUseBlock(id, name, input) == [kind |-> "object", type |-> Str("tool_use"), id |-> id,
                                  name |-> name, input |-> input, text |-> Undef]
TextBlock(text) == [kind |-> "object", type |-> Str("text"), id |-> Undef, name |-> Undef,
                    input |-> Undef, text |-> text]

\* event.output: t is "undefined", "string" or "object"; v the string itself or the
\* JSON.stringify form; content is "undefined", "array" or "object" (not iterable)
NoOutput == [t |-> "undefined", v |-> "", content |-> "undefined", blocks |-> <<>>]
StringOutput(s) == [t |-> "string", v |-> s, content |-> "undefined", blocks |-> <<>>]
PlainOutput(json) == [t |-> "object", v |-> json, content |-> "undefined", blocks |-> <<>>]
ContentOutput(blocks) == [t |-> "object", v |-> "{\"content\":[..]}", content |-> "array",
                          blocks |-> blocks]
BadContentOutput == [t |-> "object", v |-> "{\"content\":{}}", content |-> "object",
                     blocks |-> <<>>]
\* output.content is the string "Hi": for...of gives its characters, and the type
\* property of a character is undefined
CharBlock == [kind |-> "object", type |-> Undef, id |-> Undef, name |-> Undef,
              input |-> Undef, text |-> Undef]
StringContentOutput == [t |-> "object", v |-> "{\"content\":\"Hi\"}", content |-> "string",
                        blocks |-> <<CharBlock, CharBlock>>]

Event(type, run_id, path, call_id, item, chunk, output) ==
  [kind |-> "object", type |-> type, run_id |-> run_id, path |-> path,
   call_id |-> call_id, item |-> item, chunk |-> chunk, output |-> output]

TopPath == PathStr(<<"a">>)
NestedPath == PathStr(<<"a", ".", "l">>)

StartEvent(run_id, path) == Event(Str("START"), Str(run_id), path, Str("c"), NoItem, Undef, NoOutput)
DeltaEvent(item) == Event(Str("DELTA"), Str("r1"), NestedPath, Str("c"), item, Undef, NoOutput)
ChunkEvent(chunk) == Event(Str("CHUNK"), Str("r1"), NestedPath, Str("c"), NoItem, chunk, NoOutput)
OutputEvent(output) == Event(Str("OUTPUT"), Str("r1"), TopPath, Str("c"), NoItem, Undef, output)

\* The JSON payloads of the model: token -> the value JSON.parse gives for "{token}"
JsonTokens ==
  {"S1", "S2", "S3", "TH", "TL", "TE", "U1", "U2", "U0", "A1", "A2", "A9", "AE", "DN",
   "CX", "CU", "O1", "O3", "O0", "OX", "OM", "OR", "OP", "ON", "OB", "OZ", "M1", "Q1",
   "R1", "R2", "R3", "R4", "TM", "OS"}

JsonObject(tok) ==
  CASE tok = "S1" -> StartEvent("r1", TopPath)
    [] tok = "S2" -> StartEvent("r2", NestedPath)
    [] tok = "S3" -> StartEvent("r3", TopPath)
    [] tok = "TH" -> DeltaEvent(TextDeltaItem(Str("Hel")))
    [] tok = "TL" -> DeltaEvent(TextDeltaItem(Str("lo")))
    [] tok = "TE" -> DeltaEvent(TextDeltaItem(Str("")))
    [] tok = "U1" -> DeltaEvent(ToolUseItem(Str("t1"), Str("search"), Str("{\"q\":")))
    [] tok = "U2" -> DeltaEvent(ToolUseItem(Str("t2"), Undef, ObjVal("{\"k\":1}")))
    [] tok = "U0" -> DeltaEvent(ToolUseItem(Undef, Str("calc"), Undef))
    [] tok = "A1" -> DeltaEvent(ToolUseDeltaItem(Str("t1"), Str("\"cats\"}")))
    [] tok = "A2" -> DeltaEvent(ToolUseDeltaItem(Str("t2"), Str("x")))
    [] tok = "A9" -> DeltaEvent(ToolUseDeltaItem(Str("t9"), Str("y")))
    [] tok = "AE" -> DeltaEvent(ToolUseDeltaItem(Str("t1"), Str("")))
    [] tok = "DN" -> DeltaEvent(NoItem)
    [] tok = "CX" -> ChunkEvent(Str("x"))
    [] tok = "CU" -> ChunkEvent(Undef)
    [] tok = "O1" -> OutputEvent(ContentOutput(<<ToolUseBlock(Str("t1"), Str("search"), Undef)>>))
    [] tok = "O3" -> OutputEvent(ContentOutput(<<ToolUseBlock(Str("t3"), Undef, Str("{}"))>>))
    [] tok = "O0" -> OutputEvent(ContentOutput(<<ToolUseBlock(Undef, Str("calc"), Undef)>>))
    [] tok = "OX" -> OutputEvent(ContentOutput(<<TextBlock(Str("X"))>>))
    [] tok = "OM" -> OutputEvent(ContentOutput(<<TextBlock(Str("Hello")),
                                               ToolUseBlock(Str("t1"), Str("search"), Undef),
                                               TextBlock(Str("Y"))>>))
    [] tok = "OR" -> OutputEvent(StringOutput("raw"))
    [] tok = "OP" -> OutputEvent(PlainOutput("{\"a\":1}"))
    [] tok = "ON" -> OutputEvent(NoOutput)
    [] tok = "OB" -> OutputEvent(BadContentOutput)
    [] tok = "OZ" -> OutputEvent(ContentOutput(<<ToolUseBlock(Str("t3"), Undef, Undef), NullBlock>>))
    [] tok = "M1" -> Event(Str("START"), Str("r1"), TopPath, Undef, NoItem, Undef, NoOutput)
    [] tok = "Q1" -> Event(Str("FOO"), Str("r1"), TopPath, Str("c"), NoItem, Undef, NoOutput)
    [] tok = "R1" -> StartEvent("run1", TopPath)
    [] tok = "R2" -> StartEvent("run2", TopPath)
    [] tok = "R3" -> StartEvent("run3", TopPath)
    [] tok = "R4" -> StartEvent("run4", TopPath)
    [] tok = "TM" -> Event(Str("DELTA"), Undef, NoPath, Undef, TextDeltaItem(Str("Hel")),
                           Undef, NoOutput)
    [] tok = "OS" -> OutputEvent(StringContentOutput)

NullValue == [kind |-> "null"]

\* JSON.parse: surrounding white space is insignificant; "{" token "}" is an object,
\* the token null is the value null, anything else is a SyntaxError
JsonParse(s) ==
  LET t == Trim(s)
  IN  IF Len(t) = 3 /\ t[1] = "{" /\ t[3] = "}" /\ t[2] \in JsonTokens
      THEN [ok |-> TRUE, value |-> JsonObject(t[2])]
      ELSE IF t = <<"null">>
           THEN [ok |-> TRUE, value |-> NullValue]
           ELSE [ok |-> FALSE, value |-> NullValue]

\* The text of a record on the wire
JsonLine(tok) == <<"{", tok, "}">>

(***************************************************************************)
(* parseEvent (events.ts 268-303): ok = FALSE stands for a thrown error    *)
(***************************************************************************)
EventTypes == {"START", "CHUNK", "OUTPUT", "DELTA"}

\* the mutant: no check of the required fields
parseEventUnvalidated(json) ==
  LET r == JsonParse(json)
  IN  IF r.ok /\ r.value.kind = "object"
      THEN [ok |-> TRUE, event |-> r.value]
      ELSE [ok |-> FALSE, event |-> NullValue]

parseEvent(json) ==
  LET r == JsonParse(json)
  IN  IF ~r.ok THEN [ok |-> FALSE, event |-> NullValue]            \* SyntaxError
      ELSE IF r.value.kind # "object"
           THEN [ok |-> FALSE, event |-> NullValue]                \* TypeError on null
      ELSE IF \/ ~Truthy(r.value.type) \/ ~Truthy(r.value.run_id)
              \/ r.value.path.v = <<>> \/ ~Truthy(r.value.call_id)
           THEN [ok |-> FALSE, event |-> NullValue]                \* missing required fields
      ELSE IF r.value.type.v \notin EventTypes
           THEN [ok |-> FALSE, event |-> NullValue]                \* unknown event type
      ELSE [ok |-> TRUE, event |-> r.value]

(***************************************************************************)
(* Timbal.streamRun (client.ts 426-521)                                    *)
(***************************************************************************)
\* Multi-letter words of the protocol are one character of the model each
DataPrefix == <<"data:", " ">>
DoneMarker == <<"[DONE]">>

IsSseMetadata(trimmed) ==
  \/ StartsWith(trimmed, <<":">>)
  \/ StartsWith(trimmed, <<"id:">>)
  \/ StartsWith(trimmed, <<"event:">>)
  \/ StartsWith(trimmed, <<"retry:">>)

NoEvents == [events |-> <<>>, threw |-> FALSE]

\* try { yield parseEvent(json) } catch { console.warn(...) }
\* the mutant: the error of parseEvent is not caught
TryParseUncaught(json) ==
  LET r == parseEvent(json)
  IN  IF r.ok THEN [events |-> <<r.event>>, threw |-> FALSE]
      ELSE [events |-> <<>>, threw |-> TRUE]

TryParse(json) ==
  LET r == parseEvent(json)
  IN  IF r.ok THEN [events |-> <<r.event>>, threw |-> FALSE] ELSE NoEvents

\* the mutant: the text after an id: field is handled as the text after data:
ProcessLineIdAsData(line) ==
  LET trimmed == Trim(line)
  IN  IF trimmed = <<>> THEN NoEvents
      ELSE IF Head(trimmed) \in {"id:", "data:"} THEN TryParse(Trim(Tail(trimmed)))
      ELSE IF ~StartsWith(trimmed, <<"{">>) THEN NoEvents
      ELSE TryParse(trimmed)

\* the body of `for (const line of lines)`, client.ts 470-509
ProcessLine(line) ==
  LET trimmed == Trim(line)
  IN  IF trimmed = <<>> THEN NoEvents
      ELSE IF IsSseMetadata(trimmed) THEN NoEvents
      ELSE IF StartsWith(trimmed, DataPrefix)
           THEN LET jsonData == Trim(Substring(trimmed, Len(DataPrefix)))
                IN  IF jsonData = <<>> \/ jsonData = DoneMarker THEN NoEvents
                    ELSE TryParse(jsonData)
      ELSE IF ~StartsWith(trimmed, <<"{">>) THEN NoEvents
      ELSE TryParse(trimmed)

\* the lines of one chunk in order; a throw ends the loop
RECURSIVE ProcessLines(_)
ProcessLines(lines) ==
  IF lines = <<>> THEN NoEvents
  ELSE LET first == ProcessLine(Head(lines))
       IN  IF first.threw THEN first
           ELSE LET rest == ProcessLines(Tail(lines))
                IN  [events |-> first.events \o rest.events, threw |-> rest.threw]

\* buffer = lines.pop() || "" (client.ts 468)
\* the mutant: the incomplete last line is not kept
CarryOverDropped(lines) == <<>>

CarryOver(lines) == Last(lines)

\* client.ts 512-520: what is left in the buffer when the stream has ended
FlushResidual(buffer) ==
  IF Trim(buffer) # <<>> THEN TryParse(Trim(buffer)) ELSE NoEvents

\* What the server sends: one record per line.  kind is what the sender means by it.
WireRecord(kind, tok, chars) == [kind |-> kind, tok |-> tok, chars |-> chars]

WireRecords ==
  { WireRecord("json", "S1", JsonLine("S1")),
    WireRecord("json", "TH", <<" ">> \o JsonLine("TH") \o <<"\r">>),
    WireRecord("sse", "TL", DataPrefix \o JsonLine("TL")),
    WireRecord("done", "", DataPrefix \o DoneMarker),
    WireRecord("meta", "", <<":", "k">>),
    WireRecord("meta", "", <<"id:">> \o JsonLine("S1")),
    WireRecord("badjson", "", <<"{", "S1">>),
    WireRecord("invalid", "M1", JsonLine("M1")) }

SrIdle ==
  /\ srPc = "idle"
  /\ srError = "none"
  /\ srWire = <<>>
  /\ srWritten = <<>>
  /\ srClosed = FALSE
  /\ srBuffer = <<>>
  /\ srEmitted = <<>>
  /\ srCarried = FALSE

SrInit ==
  /\ srPc = "streaming"
  /\ srError = "none"
  /\ srWire = <<>>
  /\ srWritten = <<>>
  /\ srClosed = FALSE
  /\ srBuffer = <<>>
  /\ srEmitted = <<>>
  /\ srCarried = FALSE

\* The server appends one record to the response body; a record without its
\* newline is the last one
ServerWrites(rec, newline) ==
  /\ SrFrame
  /\ srPc = "streaming"
  /\ ~srClosed
  /\ Len(srWritten) < MaxLines
  /\ srWire' = srWire \o rec.chars \o (IF newline THEN <<NL>> ELSE <<>>)
  /\ srWritten' = Append(srWritten, [rec |-> rec, newline |-> newline])
  /\ srClosed' = ~newline
  /\ UNCHANGED <<srPc, srError, srBuffer, srEmitted, srCarried>>

ServerCloses ==
  /\ SrFrame
  /\ srPc = "streaming"
  /\ ~srClosed
  /\ srClosed' = TRUE
  /\ UNCHANGED <<srPc, srError, srWire, srWritten, srBuffer, srEmitted, srCarried>>

\* One iteration of `for await (const chunk of this.stream(...))`: the next n
\* characters arrive as one chunk (client.ts 456-510)
StreamYields(n) ==
  /\ SrFrame
  /\ srPc = "streaming"
  /\ n \in 1..Len(srWire)
  /\ LET chunk == SubSeq(srWire, 1, n)
         lines == Split(srBuffer \o chunk)
         out == ProcessLines(Front(lines))
     IN  /\ srWire' = Substring(srWire, n)
         /\ srBuffer' = CarryOver(lines)
         /\ srEmitted' = srEmitted \o out.events
         /\ srCarried' = (srCarried \/ Last(lines) # <<>>)
         /\ srPc' = IF out.threw THEN "threw" ELSE srPc
         /\ srError' = IF out.threw THEN "parse" ELSE srError
  /\ UNCHANGED <<srWritten, srClosed>>

\* stream() returns: the loop ends and the residual buffer is flushed (client.ts 512-520)
StreamEnds ==
  /\ SrFrame
  /\ srPc = "streaming"
  /\ srClosed
  /\ srWire = <<>>
  /\ LET out == FlushResidual(srBuffer)
     IN  /\ srEmitted' = srEmitted \o out.events
         /\ srPc' = IF out.threw THEN "threw" ELSE "done"
         /\ srError' = IF out.threw THEN "parse" ELSE srError
  /\ UNCHANGED <<srWire, srWritten, srClosed, srBuffer, srCarried>>

\* stream() throws (request failed, body read failed): streamRun has no handler,
\* the generator ends with the error and its buffer and the response are gone
StreamThrows ==
  /\ SrFrame
  /\ srPc = "streaming"
  /\ srPc' = "threw"
  /\ srError' = "transport"
  /\ srWire' = <<>>
  /\ srBuffer' = <<>>
  /\ srClosed' = TRUE
  /\ UNCHANGED <<srWritten, srEmitted, srCarried>>

SrNext ==
  \/ \E rec \in WireRecords, newline \in BOOLEAN : ServerWrites(rec, newline)
  \/ ServerCloses
  \/ \E n \in 1..Len(srWire) : StreamYields(n)
  \/ StreamEnds
  \/ StreamThrows

\* a stream of events with SSE comments and id:, event: and retry: fields
MetadataRecords ==
  { WireRecord("json", "S1", JsonLine("S1")),
    WireRecord("sse", "TL", DataPrefix \o JsonLine("TL")),
    WireRecord("meta", "", <<":", "k">>),
    WireRecord("meta", "", <<"id:">> \o JsonLine("S1")),
    WireRecord("meta", "", <<" ", "event:", "m">>),
    WireRecord("meta", "", <<"retry:", "5">>) }

SrMetadataNext ==
  \/ \E rec \in MetadataRecords, newline \in BOOLEAN : ServerWrites(rec, newline)
  \/ ServerCloses
  \/ \E n \in 1..Len(srWire) : StreamYields(n)
  \/ StreamEnds
  \/ StreamThrows

(***************************************************************************)
(* Claims about Timbal.streamRun                                           *)
(***************************************************************************)
\* every record the server wrote is a valid plain JSON event record
AllPlainJson == \A i \in 1..Len(srWritten) : srWritten[i].rec.kind = "json"

\* the events of the written records that carry a valid event, in order
ValidEvents(written) ==
  LET valid == SelectSeq(written, LAMBDA w : w.rec.kind \in {"json", "sse"})
  IN  [i \in 1..Len(valid) |-> JsonObject(valid[i].rec.tok)]

\* the stream ended with an SSE-framed record that has no newline after it
UnterminatedSseResidual ==
  /\ srWritten # <<>>
  /\ ~Last(srWritten).newline
  /\ Last(srWritten).rec.kind = "sse"

\* C1: when the response body is N valid newline-delimited JSON event records,
\* then however stream() cut it into chunks, streamRun has yielded exactly the
\* N events of these records, in their order, once it is done.
C1_FragmentBoundaryInvariance ==
  (srPc = "done" /\ AllPlainJson) =>
    /\ Len(srEmitted) = Len(srWritten)
    /\ \A i \in 1..Len(srWritten) : srEmitted[i] = JsonObject(srWritten[i].rec.tok)

\* C1 witness: two or more valid records, a chunk boundary inside a line, all yielded
C1_Witness ==
  /\ srPc = "done"
  /\ AllPlainJson
  /\ Len(srWritten) >= 2
  /\ srCarried
  /\ Len(srEmitted) = Len(srWritten)

NotMetadata(written) ==
  SelectSeq(written, LAMBDA w : ~IsSseMetadata(Trim(w.rec.chars)))

\* the events the records of written stand for, in order
EventsMeant(written) ==
  LET meant == SelectSeq(written, LAMBDA w : w.rec.tok # "")
  IN  [i \in 1..Len(meant) |-> JsonObject(meant[i].rec.tok)]

\* a is b with some elements left out
IsSubsequence(a, b) ==
  \E at \in [1..Len(a) -> 1..Len(b)] :
    /\ \A i, j \in 1..Len(a) : i < j => at[i] < at[j]
    /\ \A i \in 1..Len(a) : a[i] = b[at[i]]

\* C17: a line whose trimmed text starts with :, id:, event: or retry: yields no
\* event, with a newline after it or as the residual of the stream and however the
\* body was cut into chunks: the events yielded are events of the other lines, in
\* their order
C17_MetadataNeverYields ==
  IsSubsequence(srEmitted, EventsMeant(NotMetadata(srWritten)))

\* C17 witness: a stream with an event, an event: line with its newline and an id:
\* line with a record after it as the residual has ended, and it yielded the one event
C17_Witness ==
  /\ srPc = "done"
  /\ Len(srWritten) = 3
  /\ Len(srEmitted) = 1
  /\ srWritten[2].newline
  /\ StartsWith(Trim(srWritten[2].rec.chars), <<"event:">>)
  /\ ~srWritten[3].newline
  /\ srWritten[3].rec.chars = <<"id:">> \o JsonLine("S1")

(***************************************************************************)
(* Transport: Timbal._fetch (client.ts 111-166), TimbalApiError            *)
(* (errors.ts 2-35), Timbal.request (client.ts 168-210), sleep             *)
(***************************************************************************)
NoError == [isApi |-> FALSE, name |-> "none", statusCode |-> 0, code |-> Undef]
\* new TimbalApiError(message, statusCode, code)
TimbalApiError(statusCode, code) ==
  [isApi |-> TRUE, name |-> "TimbalApiError", statusCode |-> statusCode, code |-> code]
\* an error of another class (SyntaxError of response.json(), ...)
OtherError(name) == [isApi |-> FALSE, name |-> name, statusCode |-> 0, code |-> Undef]

\* TimbalApiError.fromResponse (errors.ts 20-35): the status of the response and
\* the code of its JSON body, when it has one
fromResponse(status, bodyCode) == TimbalApiError(status, bodyCode)

\* What one fetch() can do: kind "response" (status, the code of an error body, whether
\* the body is JSON), "abort" (the timeout fired), "network" (TypeError), "other"
FetchResponse(status, bodyCode, jsonOk) ==
  [kind |-> "response", status |-> status, bodyCode |-> bodyCode, jsonOk |-> jsonOk,
   hasBody |-> TRUE]
FetchRejects(kind) ==
  [kind |-> kind, status |-> 0, bodyCode |-> Undef, jsonOk |-> FALSE, hasBody |-> FALSE]
\* a response whose body is null: response.json() rejects
NoBodyResponse(status) ==
  [kind |-> "response", status |-> status, bodyCode |-> Undef, jsonOk |-> FALSE,
   hasBody |-> FALSE]

FetchOutcomes ==
  { FetchResponse(200, Undef, TRUE),
    FetchResponse(200, Undef, FALSE),
    NoBodyResponse(204),
    FetchResponse(404, Str("NOT_FOUND"), TRUE),
    FetchResponse(408, Str("TIMEOUT_ERROR"), TRUE),
    FetchResponse(499, Undef, FALSE),
    FetchResponse(500, Undef, FALSE),
    FetchResponse(503, Str("UNAVAILABLE"), TRUE),
    FetchRejects("abort"),
    FetchRejects("network"),
    FetchRejects("other") }

\* the mutant: every status from 200 on is ok
ResponseOkNoUpperBound(status) == status >= 200

\* response.ok
ResponseOk(status) == status >= 200 /\ status <= 299

\* _fetch (client.ts 128-165): the response, or the error it throws
fetchResult(outcome) ==
  CASE outcome.kind = "response" /\ ResponseOk(outcome.status) -> NoError
    [] outcome.kind = "response" /\ ~ResponseOk(outcome.status) ->
         fromResponse(outcome.status, outcome.bodyCode)
    [] outcome.kind = "abort" -> TimbalApiError(0, Str("TIMEOUT_ERROR"))
    [] outcome.kind = "network" -> TimbalApiError(0, Str("NETWORK_ERROR"))
    [] OTHER -> TimbalApiError(0, Str("SERVER_ERROR"))

\* the try block of request (client.ts 182-189): _fetch, then response.json()
requestTry(outcome) ==
  LET e == fetchResult(outcome)
  IN  IF e # NoError THEN e
      ELSE IF ~outcome.jsonOk THEN OtherError("SyntaxError")
      ELSE NoError

\* the try block of stream (client.ts 219-237): _fetch, then the body is read; a
\* response without a body is the error NO_BODY
streamTry(outcome) ==
  LET e == fetchResult(outcome)
  IN  IF e # NoError THEN e
      ELSE IF ~outcome.hasBody THEN TimbalApiError(outcome.status, Str("NO_BODY"))
      ELSE NoError

\* the try block of requestFormData (client.ts 384-393)
requestFormDataTry(outcome) ==
  LET e == fetchResult(outcome)
  IN  IF e # NoError THEN e
      ELSE IF ~outcome.jsonOk THEN OtherError("SyntaxError")
      ELSE NoError

\* retryCount < this.config.retryAttempts: false when retryAttempts is undefined
\* the mutant: one retry too many
BelowRetryAttemptsOffByOne(retryCount) ==
  cfgRetryAttempts.set /\ retryCount <= cfgRetryAttempts.n

BelowRetryAttempts(retryCount) ==
  cfgRetryAttempts.set /\ retryCount < cfgRetryAttempts.n

\* shouldRetry (client.ts 191-196)
shouldRetry(error, retryCount) ==
  /\ error.isApi
  /\ \/ error.code = Str("TIMEOUT_ERROR")
     \/ error.code = Str("NETWORK_ERROR")
     \/ error.statusCode >= 500
  /\ BelowRetryAttempts(retryCount)

\* this.config.retryDelay * (retryCount + 1) (client.ts 199): NaN when retryDelay is undefined
\* the mutant: the same delay before every retry
retryWaitConstant(retryCount) ==
  IF cfgRetryDelay.set THEN [nan |-> FALSE, ms |-> cfgRetryDelay.ms]
  ELSE [nan |-> TRUE, ms |-> 0]

retryWait(retryCount) ==
  IF cfgRetryDelay.set THEN [nan |-> FALSE, ms |-> cfgRetryDelay.ms * (retryCount + 1)]
  ELSE [nan |-> TRUE, ms |-> 0]

\* shouldRetry of stream (client.ts 240-245)
\* the mutant: the streaming path retries on no status
streamShouldRetryNoStatus(error, retryCount) ==
  /\ error.isApi
  /\ \/ error.code = Str("TIMEOUT_ERROR")
     \/ error.code = Str("NETWORK_ERROR")
  /\ BelowRetryAttempts(retryCount)

\* the mutant: every error is retried while attempts are left
streamShouldRetryAnyError(error, retryCount) == BelowRetryAttempts(retryCount)

streamShouldRetry(error, retryCount) ==
  /\ error.isApi
  /\ \/ error.code = Str("TIMEOUT_ERROR")
     \/ error.code = Str("NETWORK_ERROR")
     \/ error.statusCode >= 500
  /\ BelowRetryAttempts(retryCount)

\* this.config.retryDelay * (retryCount + 1) of stream (client.ts 248)
streamRetryWait(retryCount) ==
  IF cfgRetryDelay.set THEN [nan |-> FALSE, ms |-> cfgRetryDelay.ms * (retryCount + 1)]
  ELSE [nan |-> TRUE, ms |-> 0]

\* shouldRetry of requestFormData (client.ts 395-400)
requestFormDataShouldRetry(error, retryCount) ==
  /\ error.isApi
  /\ \/ error.code = Str("TIMEOUT_ERROR")
     \/ error.code = Str("NETWORK_ERROR")
     \/ error.statusCode >= 500
  /\ BelowRetryAttempts(retryCount)

\* this.config.retryDelay * (retryCount + 1) of requestFormData (client.ts 403)
requestFormDataRetryWait(retryCount) ==
  IF cfgRetryDelay.set THEN [nan |-> FALSE, ms |-> cfgRetryDelay.ms * (retryCount + 1)]
  ELSE [nan |-> TRUE, ms |-> 0]

CallSites == {"request", "stream", "requestFormData"}

\* the three call sites, by name
SiteTry(site, outcome) ==
  CASE site = "request" -> requestTry(outcome)
    [] site = "stream" -> streamTry(outcome)
    [] site = "requestFormData" -> requestFormDataTry(outcome)

SiteShouldRetry(site, error, retryCount) ==
  CASE site = "request" -> shouldRetry(error, retryCount)
    [] site = "stream" -> streamShouldRetry(error, retryCount)
    [] site = "requestFormData" -> requestFormDataShouldRetry(error, retryCount)

SiteRetryWait(site, retryCount) ==
  CASE site = "request" -> retryWait(retryCount)
    [] site = "stream" -> streamRetryWait(retryCount)
    [] site = "requestFormData" -> requestFormDataRetryWait(retryCount)

\* sleep (errors.ts 58-60): setTimeout(resolve, ms); a NaN delay is a delay of 0
sleep(wait) == IF wait.nan THEN 0 ELSE wait.ms

RetryAttemptsConfigs ==
  {[set |-> FALSE, n |-> 0]} \cup {[set |-> TRUE, n |-> n] : n \in 0..MaxRetryAttempts}
RetryDelayConfigs ==
  {[set |-> FALSE, ms |-> 0], [set |-> TRUE, ms |-> 50], [set |-> TRUE, ms |-> 1000]}

\* the Authorization header: none, or a scheme and a credential
NoHeader == <<>>
Bearer(credential) == <<"Bearer", credential>>

\* buildHeaders (client.ts 82-109), its Authorization entry: the default headers, then
\* the credential of the client, then the headers of the request, each over the last
\* the mutant: the session token goes before the API key
buildHeadersSessionFirst(defaultHeaders, apiKey, sessionToken, optionsHeaders) ==
  LET configured == IF sessionToken # "" THEN Bearer(sessionToken)
                    ELSE IF apiKey # "" THEN Bearer(apiKey)
                    ELSE defaultHeaders
  IN  IF optionsHeaders # NoHeader THEN optionsHeaders ELSE configured

buildHeaders(defaultHeaders, apiKey, sessionToken, optionsHeaders) ==
  LET configured == IF apiKey # "" THEN Bearer(apiKey)
                    ELSE IF sessionToken # "" THEN Bearer(sessionToken)
                    ELSE defaultHeaders
  IN  IF optionsHeaders # NoHeader THEN optionsHeaders ELSE configured

\* the tokens the session provider hands to updateSessionToken; "" is undefined
SessionTokens == {"", "st1", "st2"}

\* new Timbal(config) with and without an API key, a session token and an
\* Authorization default header; one call of request with and without
\* an Authorization header of its own, retried once
HeadersInit ==
  /\ rqSite = "request"
  /\ cfgRetryAttempts = [set |-> TRUE, n |-> 1]
  /\ cfgRetryDelay = [set |-> FALSE, ms |-> 0]
  /\ cfgApiKey \in {"", "key"}
  /\ cfgDefaultHeaders \in {NoHeader, <<"Basic", "dflt">>}
  /\ cfgSessionToken \in {"", "st0"}
  /\ tbIsReady = FALSE
  /\ rqOptionsHeaders \in {NoHeader, Bearer("own")}
  /\ rqPc = "ready"
  /\ rqRetryCount = 0
  /\ rqThrown = NoError
  /\ rqLog = <<>>
  /\ rqSleeps = <<>>
  /\ rqSent = <<>>

RqIdle ==
  /\ rqSite = "none"
  /\ cfgRetryAttempts = [set |-> FALSE, n |-> 0]
  /\ cfgRetryDelay = [set |-> FALSE, ms |-> 0]
  /\ cfgApiKey = ""
  /\ cfgDefaultHeaders = NoHeader
  /\ cfgSessionToken = ""
  /\ tbIsReady = FALSE
  /\ rqOptionsHeaders = NoHeader
  /\ rqSent = <<>>
  /\ rqPc = "idle"
  /\ rqRetryCount = 0
  /\ rqThrown = NoError
  /\ rqLog = <<>>
  /\ rqSleeps = <<>>

\* new Timbal(config), then one call of request, stream or requestFormData with
\* retryCount = 0
RqInit ==
  /\ rqSite \in CallSites
  /\ cfgRetryAttempts \in RetryAttemptsConfigs
  /\ cfgRetryDelay \in RetryDelayConfigs
  /\ cfgApiKey = ""
  /\ cfgDefaultHeaders = NoHeader
  /\ cfgSessionToken = ""
  /\ tbIsReady = FALSE
  /\ rqOptionsHeaders = NoHeader
  /\ rqSent = <<>>
  /\ rqPc = "ready"
  /\ rqRetryCount = 0
  /\ rqThrown = NoError
  /\ rqLog = <<>>
  /\ rqSleeps = <<>>

\* this._session = null (client.ts 59)
NoSession == [req |-> 0, token |-> ""]

\* updateSessionToken (client.ts 56-65): the cached session is dropped, and the
\* first call resolves _ready
updateSessionToken(token) ==
  /\ RqFrame
  /\ gsSession' = NoSession
  /\ UNCHANGED <<gsSessionPromise, gsRequests, gsCalls>>
  /\ cfgSessionToken' = token
  /\ tbIsReady' = TRUE
  /\ UNCHANGED <<rqSite, cfgRetryAttempts, cfgRetryDelay, cfgApiKey, cfgDefaultHeaders,
                 rqOptionsHeaders, rqSent, rqPc, rqRetryCount, rqThrown, rqLog, rqSleeps>>

\* the mutant: fetch() is issued without waiting for _ready
FetchDispatchedAtOnce ==
  /\ RqFrame
  /\ UNCHANGED gsVars
  /\ rqPc = "ready"
  /\ rqPc' = "fetching"
  /\ rqSent' = Append(rqSent,
       [apiKey |-> cfgApiKey, sessionToken |-> cfgSessionToken,
        authorization |->
          buildHeaders(cfgDefaultHeaders, cfgApiKey, cfgSessionToken, rqOptionsHeaders)])
  /\ UNCHANGED <<rqSite, cfgRetryAttempts, cfgRetryDelay, cfgApiKey, cfgDefaultHeaders,
                 cfgSessionToken, tbIsReady, rqOptionsHeaders, rqRetryCount, rqThrown, rqLog,
                 rqSleeps>>

\* _fetch: await this._ready (client.ts 117), then fetch() is issued
FetchDispatched ==
  /\ RqFrame
  /\ UNCHANGED gsVars
  /\ rqPc = "ready"
  /\ tbIsReady
  /\ rqPc' = "fetching"
  /\ rqSent' = Append(rqSent,
       [apiKey |-> cfgApiKey, sessionToken |-> cfgSessionToken,
        authorization |->
          buildHeaders(cfgDefaultHeaders, cfgApiKey, cfgSessionToken, rqOptionsHeaders)])
  /\ UNCHANGED <<rqSite, cfgRetryAttempts, cfgRetryDelay, cfgApiKey, cfgDefaultHeaders,
                 cfgSessionToken, tbIsReady, rqOptionsHeaders, rqRetryCount, rqThrown, rqLog,
                 rqSleeps>>

\* the attempt settles: the call returns, throws, or decides to retry (client.ts
\* 182-209, 219-259, 384-408)
FetchSettles(outcome) ==
  /\ RqFrame
  /\ UNCHANGED gsVars
  /\ rqPc = "fetching"
  /\ LET e == SiteTry(rqSite, outcome)
         retry == e # NoError /\ SiteShouldRetry(rqSite, e, rqRetryCount)
     IN  /\ rqLog' = Append(rqLog, [outcome |-> outcome, fetchError |-> fetchResult(outcome),
                                    error |-> e, retryCount |-> rqRetryCount, retried |-> retry])
         /\ rqPc' = IF e = NoError THEN "returned" ELSE IF retry THEN "sleeping" ELSE "threw"
         /\ rqThrown' = IF e # NoError /\ ~retry THEN e ELSE rqThrown
  /\ UNCHANGED <<rqSite, cfgRetryAttempts, cfgRetryDelay, cfgApiKey, cfgDefaultHeaders,
                 cfgSessionToken, tbIsReady, rqOptionsHeaders, rqSent, rqRetryCount, rqSleeps>>

\* await sleep(...) ends and the call site calls itself with retryCount + 1
\* (client.ts 199-205, 248-254, 403-404)
SleepEnds ==
  /\ RqFrame
  /\ UNCHANGED gsVars
  /\ rqPc = "sleeping"
  /\ rqSleeps' = Append(rqSleeps, sleep(SiteRetryWait(rqSite, rqRetryCount)))
  /\ rqRetryCount' = rqRetryCount + 1
  /\ rqPc' = "ready"
  /\ UNCHANGED <<rqSite, cfgRetryAttempts, cfgRetryDelay, cfgApiKey, cfgDefaultHeaders,
                 cfgSessionToken, tbIsReady, rqOptionsHeaders, rqSent, rqThrown, rqLog>>

\* the session provider has one token to hand over
RqNext ==
  \/ updateSessionToken("st1")
  \/ FetchDispatched
  \/ \E outcome \in FetchOutcomes : FetchSettles(outcome)
  \/ SleepEnds

\* the session changes while the call runs
HeadersNext ==
  \/ \E token \in SessionTokens : updateSessionToken(token)
  \/ FetchDispatched
  \/ \E outcome \in FetchOutcomes : FetchSettles(outcome)
  \/ SleepEnds

(***************************************************************************)
(* Claims about Timbal.buildHeaders and Timbal.updateSessionToken          *)
(***************************************************************************)
\* the header the claim names for the credentials of the client
BearerOfCredentials(apiKey, sessionToken) ==
  IF apiKey # "" THEN Bearer(apiKey)
  ELSE IF sessionToken # "" THEN Bearer(sessionToken)
  ELSE NoHeader

\* C18 as stated: a request without an Authorization header of its own is sent with
\* Bearer <apiKey> when an API key is configured, with Bearer <sessionToken> when
\* there is no API key and a session token is set, and with no Authorization header
\* otherwise; updateSessionToken leaves the API key as configured
C18_AuthorizationPriority ==
  \A i \in 1..Len(rqSent) :
    /\ rqSent[i].apiKey = cfgApiKey
    /\ rqOptionsHeaders = NoHeader =>
         rqSent[i].authorization = BearerOfCredentials(rqSent[i].apiKey, rqSent[i].sessionToken)

\* C18: a request without an Authorization header of its own is sent with
\* Bearer <apiKey> when an API key is configured, with Bearer <sessionToken> when
\* there is no API key and a session token is set, and otherwise with the
\* Authorization entry of the configured default headers, which is no header when
\* there is no such entry; updateSessionToken leaves the API key as configured
C18_AuthorizationPriorityOverDefault ==
  \A i \in 1..Len(rqSent) :
    /\ rqSent[i].apiKey = cfgApiKey
    /\ rqOptionsHeaders = NoHeader =>
         rqSent[i].authorization =
           IF rqSent[i].apiKey = "" /\ rqSent[i].sessionToken = ""
           THEN cfgDefaultHeaders
           ELSE BearerOfCredentials(rqSent[i].apiKey, rqSent[i].sessionToken)

\* C18 witness: with an API key configured and a session token set by
\* updateSessionToken between two attempts, both went out with the API key
C18_Witness ==
  /\ cfgApiKey = "key"
  /\ rqOptionsHeaders = NoHeader
  /\ Len(rqSent) = 2
  /\ rqSent[1].sessionToken = ""
  /\ rqSent[2].sessionToken = "st1"
  /\ rqSent[2].authorization = Bearer("key")

(***************************************************************************)
(* Claims about Timbal._fetch                                              *)
(***************************************************************************)
\* C19: of every fetch() _fetch throws a TimbalApiError with code TIMEOUT_ERROR when
\* the timeout aborted it, with code NETWORK_ERROR when the network failed, and with
\* the status of the response when that status is not 2xx; it returns without error
\* exactly when the response has a 2xx status
C19_OutcomesClassified ==
  \A i \in 1..Len(rqLog) :
    LET outcome == rqLog[i].outcome
        error == rqLog[i].fetchError
        is2xx == outcome.kind = "response" /\ outcome.status \in 200..299
    IN  /\ outcome.kind = "abort" => error.isApi /\ error.code = Str("TIMEOUT_ERROR")
        /\ outcome.kind = "network" => error.isApi /\ error.code = Str("NETWORK_ERROR")
        /\ outcome.kind = "response" /\ ~is2xx =>
             error.isApi /\ error.statusCode = outcome.status
        /\ error = NoError <=> is2xx

\* C19 witness: one call saw a timeout, then a response with status 503, then one
\* with status 200
C19_Witness ==
  /\ Len(rqLog) = 3
  /\ rqLog[1].outcome.kind = "abort"
  /\ rqLog[2].outcome.kind = "response" /\ rqLog[2].outcome.status = 503
  /\ rqLog[3].outcome.kind = "response" /\ rqLog[3].outcome.status = 200
  /\ rqLog[3].fetchError = NoError

(***************************************************************************)
(* Claims about Timbal.request                                             *)
(***************************************************************************)
\* C9: an attempt is retried exactly when its error is TIMEOUT_ERROR, NETWORK_ERROR
\* or has a status of 500 or more, and fewer than retryAttempts retries were made;
\* an error with a 4xx status is never retried; one call makes at most
\* retryAttempts + 1 attempts.
C9_RetryPolicy ==
  /\ \A i \in 1..Len(rqLog) :
       LET a == rqLog[i]
       IN  a.error # NoError =>
             /\ a.retried <=>
                  /\ \/ a.error.code = Str("TIMEOUT_ERROR")
                     \/ a.error.code = Str("NETWORK_ERROR")
                     \/ a.error.statusCode >= 500
                  /\ cfgRetryAttempts.set /\ a.retryCount < cfgRetryAttempts.n
             /\ (a.error.statusCode >= 400 /\ a.error.statusCode <= 499) => ~a.retried
  /\ cfgRetryAttempts.set => Len(rqLog) <= cfgRetryAttempts.n + 1

\* C10: the k-th retry is made after a wait of retryDelay * k; a call that fails
\* twice with NETWORK_ERROR and succeeds on the third attempt returns the result
\* after retryDelay * 1 + retryDelay * 2.
C10_LinearBackoff ==
  cfgRetryDelay.set =>
    /\ \A k \in 1..Len(rqSleeps) : rqSleeps[k] = cfgRetryDelay.ms * k
    /\ ( /\ Len(rqLog) = 3
         /\ rqLog[1].error.code = Str("NETWORK_ERROR")
         /\ rqLog[2].error.code = Str("NETWORK_ERROR")
         /\ rqLog[3].error = NoError
         /\ cfgRetryAttempts.set /\ cfgRetryAttempts.n >= 2 )
       => /\ rqPc = "returned"
          /\ Len(rqSleeps) = 2
          /\ rqSleeps[1] + rqSleeps[2] = cfgRetryDelay.ms * 1 + cfgRetryDelay.ms * 2

\* C10 witness: two NETWORK_ERROR failures, then success, with a delay configured
C10_Witness ==
  /\ cfgRetryDelay.set /\ cfgRetryDelay.ms > 0
  /\ rqPc = "returned"
  /\ Len(rqLog) = 3
  /\ rqLog[1].error.code = Str("NETWORK_ERROR")
  /\ rqLog[2].error.code = Str("NETWORK_ERROR")
  /\ rqSleeps = <<cfgRetryDelay.ms, 2 * cfgRetryDelay.ms>>

\* C11: whatever the call site, every settled attempt got the decision the policy of
\* request gives for the same error, retry count and configuration, and every wait
\* took what the policy of request waits before that retry
C11_OneRetryPolicy ==
  /\ \A i \in 1..Len(rqLog) :
       rqLog[i].error # NoError =>
         (rqLog[i].retried <=> shouldRetry(rqLog[i].error, rqLog[i].retryCount))
  /\ \A k \in 1..Len(rqSleeps) : rqSleeps[k] = sleep(retryWait(k - 1))

\* a streaming call that was answered 503, waited, and was retried
C11_Witness ==
  /\ rqSite = "stream"
  /\ cfgRetryDelay.set
  /\ Len(rqLog) >= 2
  /\ rqLog[1].error.statusCode = 503
  /\ rqLog[1].retried
  /\ rqSleeps # <<>>

(***************************************************************************)
(* Chat runtime: the reducer of streamAssistantResponse                    *)
(* (timbal-runtime.tsx 141-365).  A run record holds the locals of one     *)
(* invocation; a reducer step maps a run record to a run record.           *)
(***************************************************************************)
\* ContentPart (timbal-runtime.tsx 13-26); result Undef is "no result yet"
TextPart(text) ==
  [type |-> "text", text |-> text, toolCallId |-> "", toolName |-> "", argsText |-> "",
   result |-> Undef]
ToolCallPart(toolCallId, toolName, argsText, result) ==
  [type |-> "tool-call", text |-> "", toolCallId |-> toolCallId, toolName |-> toolName,
   argsText |-> argsText, result |-> result]

FailureText == "Something went wrong."
ToolResult == Str("Tool executed")

\* new Map<string, number>(): a function from tool-call ids to positions in
\* contentParts (positions count from 1 here, from 0 in the code)
EmptyMap == [id \in {} |-> 0]
MapHas(map, id) == id \in DOMAIN map
MapSet(map, id, idx) == [k \in DOMAIN map \cup {id} |-> IF k = id THEN idx ELSE map[k]]

\* parseLine (timbal-runtime.tsx 35-45): the parsed value, or null
parseLine(line) ==
  LET trimmed == Trim(line)
      jsonStr == IF StartsWith(trimmed, DataPrefix)
                 THEN Substring(trimmed, Len(DataPrefix)) ELSE trimmed
      r == JsonParse(jsonStr)
  IN  IF trimmed = <<>> THEN NullValue
      ELSE IF jsonStr = DoneMarker THEN NullValue
      ELSE IF r.ok THEN r.value ELSE NullValue

\* `tool-${crypto.randomUUID()}`: an id no other part has
FreshToolId(run) == "tool-uuid" \o ToString(run.uuid + 1)

\* getOrCreateTextPart (timbal-runtime.tsx 152-160): afterwards the text part is
\* the last element of contentParts
\* the mutant: a new text part for every fragment
getOrCreateTextPartAlwaysNew(run) ==
  [run EXCEPT !.contentParts = Append(@, TextPart(""))]

getOrCreateTextPart(run) ==
  IF run.contentParts # <<>> /\ Last(run.contentParts).type = "text"
  THEN run
  ELSE [run EXCEPT !.contentParts = Append(@, TextPart(""))]

Result(run, publish, threw) == [run |-> run, publish |-> publish, threw |-> threw]

\* the mutant: the fragment replaces the text
appendTextReplaces(run, fragment) ==
  LET r1 == getOrCreateTextPart(run)
  IN  Result([r1 EXCEPT !.contentParts[Len(r1.contentParts)].text = fragment],
             TRUE, FALSE)

\* textPart.text += fragment; updateAssistantMessage() (262-265, 294-296)
appendText(run, fragment) ==
  LET r1 == getOrCreateTextPart(run)
  IN  Result([r1 EXCEPT !.contentParts[Len(r1.contentParts)].text = @ \o fragment],
             TRUE, FALSE)

\* the mutant: the index is taken after the push, one too far
applyToolUseIndexAfterPush(run, item) ==
  LET fresh == ~Truthy(item.id)
      toolCallId == IF fresh THEN FreshToolId(run) ELSE item.id.v
      toolName == IF Truthy(item.name) THEN item.name.v ELSE "unknown"
      inputStr == StringOrStringify(item.input)
      idx == Len(run.contentParts) + 2
  IN  Result([run EXCEPT !.contentParts = Append(@, ToolCallPart(toolCallId, toolName, inputStr, Undef)),
                         !.toolCallMap = MapSet(@, toolCallId, idx),
                         !.uuid = IF fresh THEN @ + 1 ELSE @],
             TRUE, FALSE)

\* DELTA / tool_use (266-280)
applyToolUse(run, item) ==
  LET fresh == ~Truthy(item.id)
      toolCallId == IF fresh THEN FreshToolId(run) ELSE item.id.v
      toolName == IF Truthy(item.name) THEN item.name.v ELSE "unknown"
      inputStr == StringOrStringify(item.input)
      idx == Len(run.contentParts) + 1
  IN  Result([run EXCEPT !.contentParts = Append(@, ToolCallPart(toolCallId, toolName, inputStr, Undef)),
                         !.toolCallMap = MapSet(@, toolCallId, idx),
                         !.uuid = IF fresh THEN @ + 1 ELSE @],
             TRUE, FALSE)

\* the part a tool_use_delta is appended to: contentParts[toolCallMap.get(id)]
\* the mutant: the last part, whatever its id
deltaTargetLast(run, toolCallId) == Len(run.contentParts)

deltaTarget(run, toolCallId) == run.toolCallMap[toolCallId]

\* DELTA / tool_use_delta (281-292)
\* the mutant: the delta is appended and updateAssistantMessage is not called
applyToolUseDeltaUnpublished(run, item) ==
  IF Truthy(item.id) /\ Truthy(item.input_delta) /\ MapHas(run.toolCallMap, item.id.v)
  THEN Result([run EXCEPT !.contentParts[deltaTarget(run, item.id.v)].argsText =
                            @ \o item.input_delta.v],
              FALSE, FALSE)
  ELSE Result(run, FALSE, FALSE)

applyToolUseDelta(run, item) ==
  IF Truthy(item.id) /\ Truthy(item.input_delta) /\ MapHas(run.toolCallMap, item.id.v)
  THEN Result([run EXCEPT !.contentParts[deltaTarget(run, item.id.v)].argsText =
                            @ \o item.input_delta.v],
              TRUE, FALSE)
  ELSE Result(run, FALSE, FALSE)

\* DELTA (256-292)
applyDelta(run, item) ==
  IF ~item.present THEN Result(run, FALSE, FALSE)
  ELSE IF item.type = Str("text_delta") /\ item.text_delta.t = "string"
       THEN appendText(run, item.text_delta.v)
  ELSE IF item.type = Str("tool_use") THEN applyToolUse(run, item)
  ELSE IF item.type = Str("tool_use_delta") THEN applyToolUseDelta(run, item)
  ELSE Result(run, FALSE, FALSE)

\* a tool_use block of OUTPUT whose id has a part (303-308) or has none (309-322)
\* the mutant: the block always appends a part
toolUseBlockAlwaysAppends(run, block) ==
  LET fresh == ~Truthy(block.id)
      toolCallId == IF fresh THEN FreshToolId(run) ELSE block.id.v
  IN  [run EXCEPT !.contentParts = Append(@, ToolCallPart(toolCallId, "unknown", "{}", ToolResult)),
                  !.toolCallMap = MapSet(@, toolCallId, Len(run.contentParts) + 1),
                  !.uuid = IF fresh THEN @ + 1 ELSE @]

toolUseBlock(run, block) ==
  LET fresh == ~Truthy(block.id)
      toolCallId == IF fresh THEN FreshToolId(run) ELSE block.id.v
      toolName == IF Truthy(block.name) THEN block.name.v ELSE "unknown"
      inputStr == StringOrStringify(block.input)
  IN  IF MapHas(run.toolCallMap, toolCallId)
      THEN [run EXCEPT !.contentParts[run.toolCallMap[toolCallId]].result = ToolResult]
      ELSE [run EXCEPT !.contentParts = Append(@, ToolCallPart(toolCallId, toolName, inputStr, ToolResult)),
                       !.toolCallMap = MapSet(@, toolCallId, Len(run.contentParts) + 1),
                       !.uuid = IF fresh THEN @ + 1 ELSE @]

\* a text block of OUTPUT (323-328): if (!textPart.text) textPart.text = part.text
\* the mutant: the text of the block replaces the text of the part
backfillOverwrites(oldText, blockText) == blockText

backfill(oldText, blockText) == IF oldText = "" THEN blockText ELSE oldText

textBlock(run, block) ==
  LET r1 == getOrCreateTextPart(run)
  IN  [r1 EXCEPT !.contentParts[Len(r1.contentParts)].text = backfill(@, block.text.v)]

\* for (const part of outputContent) (302-329): a null element throws (part.type)
RECURSIVE applyBlocks(_, _)
applyBlocks(run, blocks) ==
  IF blocks = <<>> THEN Result(run, FALSE, FALSE)
  ELSE LET block == Head(blocks)
       IN  IF block.kind = "null" THEN Result(run, FALSE, TRUE)
           ELSE IF block.type = Str("tool_use")
                THEN applyBlocks(toolUseBlock(run, block), Tail(blocks))
           ELSE IF block.type = Str("text") /\ block.text.t = "string"
                THEN applyBlocks(textBlock(run, block), Tail(blocks))
           ELSE applyBlocks(run, Tail(blocks))

\* typeof output === "string" ? output : JSON.stringify(output) (332, 344-347)
OutputText(output) == output.v

\* if (output): "" and undefined are falsy
OutputTruthy(output) == output.t = "object" \/ (output.t = "string" /\ output.v # "")

\* OUTPUT (297-336)
applyOutput(run, output) ==
  IF ~OutputTruthy(output) THEN Result(run, FALSE, FALSE)
  ELSE IF output.t = "object" /\ output.content # "undefined"
       THEN IF output.content \notin {"array", "string"}
            THEN Result(run, FALSE, TRUE)               \* not iterable: TypeError
            ELSE LET b == applyBlocks(run, output.blocks)
                 IN  Result(b.run, ~b.threw, b.threw)
  ELSE IF run.contentParts = <<>>
       THEN Result([run EXCEPT !.contentParts = <<TextPart(OutputText(output))>>], TRUE, FALSE)
  ELSE Result(run, FALSE, FALSE)

\* the START test (245-251): the run id to capture, or "" for none
\* the mutant: every top-level START is captured, not only the first
topLevelRunIdEveryStart(run, event) ==
  IF /\ event.type = Str("START")
     /\ event.run_id.t = "string"
     /\ event.path.t = "string"
     /\ \A i \in 1..Len(event.path.v) : event.path.v[i] # "."
  THEN event.run_id.v
  ELSE ""

topLevelRunId(run, event) ==
  IF /\ run.capturedRunId = ""
     /\ event.type = Str("START")
     /\ event.run_id.t = "string"
     /\ event.path.t = "string"
     /\ \A i \in 1..Len(event.path.v) : event.path.v[i] # "."
  THEN event.run_id.v
  ELSE ""

\* the content part of the loop body (256-337), for one parsed event
applyEvent(run, event) ==
  IF event.type = Str("DELTA") THEN applyDelta(run, event.item)
  ELSE IF event.type = Str("CHUNK") THEN appendText(run, JsString(event.chunk))
  ELSE IF event.type = Str("OUTPUT") THEN applyOutput(run, event.output)
  ELSE Result(run, FALSE, FALSE)

\* the residual buffer after the last read (341-351)
applyResidual(run) ==
  LET event == parseLine(run.buffer)
  IN  IF /\ Trim(run.buffer) # <<>>
         /\ event.kind = "object"
         /\ event.type = Str("OUTPUT")
         /\ run.contentParts = <<>>
         /\ OutputTruthy(event.output)
      THEN Result([run EXCEPT !.contentParts = <<TextPart(OutputText(event.output))>>],
                  TRUE, FALSE)
      ELSE Result(run, FALSE, FALSE)

\* catch (352-358), for an error that is not an AbortError
\* the mutant: the failure text is added whatever has accumulated
catchErrorAlwaysNotice(parts) == Append(parts, TextPart(FailureText))

catchError(parts) == IF parts = <<>> THEN <<TextPart(FailureText)>> ELSE parts

(***************************************************************************)
(* Chat runtime: the coordinator (onNew, onCancel) and the steps of        *)
(* streamAssistantResponse between its awaits.  The lines of one chunk are *)
(* processed one per step; nothing else runs until the chunk is done.      *)
(***************************************************************************)
RunIds == 1..MaxRuns

NewRun ==
  [pc |-> "unused",        \* "fetch1" | "refresh" | "fetch2" | "reading" | "lines" | "ended"
   userId |-> "", assistantId |-> "", parentId |-> "", input |-> "",
   aborted |-> FALSE,      \* signal.aborted
   wire |-> <<>>,          \* response body written by the server and not yet read
   closed |-> FALSE,       \* the server has ended the body
   written |-> 0,          \* number of records the server has written
   buffer |-> <<>>,
   lineQueue |-> <<>>,     \* the lines of the current chunk still to process
   contentParts |-> <<>>,
   toolCallMap |-> EmptyMap,
   capturedRunId |-> "",
   uuid |-> 0,             \* number of crypto.randomUUID() ids drawn
   \* history, for the claims
   endedBy |-> "none",     \* "done" | "abort" | "error"
   cancelled |-> FALSE,    \* cancel() has aborted this run
   partsAtCancel |-> <<>>, \* the content of the assistant message at that moment
   partsAtCatch |-> <<>>,  \* contentParts when the catch block was entered
   origin |-> <<>>,        \* per part, the kind of event that created it
   frags |-> "",           \* text fragments applied since the last DELTA/tool_use
   fragsN |-> 0,
   outputSince |-> FALSE,  \* an OUTPUT event was processed since the last DELTA/tool_use
   lastTok |-> "",         \* the type of the last event applied
   reloadArg |-> "-",      \* the messageId given to onReload ("" for null), "-" for onNew
   firstTop |-> "",        \* the run id of the first START processed whose path has no "."
   lateStarts |-> 0,       \* the number of START events processed after that one
   requests |-> 0,         \* the fetch() calls of the stream request that have settled
   failStatus |-> -1,      \* the status the request failed with, 0 for a network error
   linesDone |-> 0,        \* the iterations of `for (const line of lines)` made
   dirty |-> FALSE,        \* contentParts has changed since updateAssistantMessage was called
   incomplete |-> 0,       \* the events handed to the reducer without type, run_id, path
                           \* or call_id
   eventThrew |-> FALSE,   \* the reducer threw on a record that JSON.parse accepted
   firstPublished |-> <<>>] \* the parts of the first list published that was not empty,
                           \* as they were then

\* The content of a message as the UI reads it.  The content array of an assistant
\* message is a copy of contentParts ([...contentParts]) holding the same part
\* objects: its elements are the first len parts of its run.
MessageContent(m) ==
  IF m.role = "user" THEN <<TextPart(m.text)>>
  ELSE SubSeq(runs[m.run].contentParts, 1, m.len)

AssistantMessage(r) ==
  CHOOSE i \in 1..Len(messages) : messages[i].id = runs[r].assistantId

HasAssistantMessage(r) ==
  \E i \in 1..Len(messages) : messages[i].id = runs[r].assistantId

\* updateAssistantMessage() (162-171): content: [...contentParts]
updateAssistantMessage(msgs, assistantId, len) ==
  [i \in 1..Len(msgs) |->
     IF msgs[i].id = assistantId THEN [msgs[i] EXCEPT !.len = len] ELSE msgs[i]]

\* stampRunId (173-179)
stampRunId(msgs, userId, assistantId, runId) ==
  [i \in 1..Len(msgs) |->
     IF msgs[i].id = userId \/ msgs[i].id = assistantId
     THEN [msgs[i] EXCEPT !.runId = runId] ELSE msgs[i]]

\* no handler runs while the lines of a chunk are being processed
Synchronous == \E r \in RunIds : runs[r].pc = "lines"

RtIdle ==
  /\ messages = <<>>
  /\ isRunning = FALSE
  /\ abortRef = 0
  /\ accessToken = ""
  /\ refreshToken = ""
  /\ runs = [r \in RunIds |-> NewRun]

\* the provider is mounted: no messages, the tokens of a signed-in session
RtInit ==
  /\ messages = <<>>
  /\ isRunning = FALSE
  /\ abortRef = 0
  /\ accessToken = "at0"
  /\ refreshToken = "rt0"
  /\ runs = [r \in RunIds |-> NewRun]

Inputs == {"hi"}

\* parentId of onNew (376-379): runId of the last assistant message, "" for null.
\* messagesRef.current is read as the transcript: the effect that copies it has run
\* whenever the UI lets the user submit or reload.
\* the mutant: the run id of the first assistant message
FirstAssistantRunId(msgs) ==
  LET idx == {i \in 1..Len(msgs) : msgs[i].role = "assistant"}
  IN  IF idx = {} THEN ""
      ELSE msgs[CHOOSE i \in idx : \A j \in idx : i <= j].runId

LastAssistantRunId(msgs) ==
  LET idx == {i \in 1..Len(msgs) : msgs[i].role = "assistant"}
  IN  IF idx = {} THEN ""
      ELSE msgs[CHOOSE i \in idx : \A j \in idx : j <= i].runId

\* onNew (367-398), up to the first await of streamAssistantResponse (210)
onNew(input) ==
  /\ RtFrame
  /\ ~Synchronous
  /\ \E r \in RunIds :
       /\ runs[r].pc = "unused"
       /\ \A q \in RunIds : q < r => runs[q].pc # "unused"
       /\ LET userId == "u" \o ToString(r)
              assistantId == "a" \o ToString(r)
          IN  /\ messages' = messages \o
                   << [id |-> userId, role |-> "user", text |-> input, run |-> 0, len |-> 0, runId |-> ""],
                      [id |-> assistantId, role |-> "assistant", text |-> "", run |-> r, len |-> 0, runId |-> ""] >>
              /\ runs' = [runs EXCEPT ![r] =
                   [NewRun EXCEPT !.pc = "fetch1", !.userId = userId, !.assistantId = assistantId,
                                  !.input = input, !.parentId = LastAssistantRunId(messages)]]
              /\ abortRef' = r
  /\ isRunning' = TRUE
  /\ UNCHANGED <<accessToken, refreshToken>>

\* the messages a reload can name: messageId, or "" for null
\* onReload (400-434), up to the first await of streamAssistantResponse (210)
\* the mutant of the truncation: the later messages are kept
reloadTrimmedKeepsAll(msgs, messageIdx) == msgs

reloadTrimmed(msgs, messageIdx) == SubSeq(msgs, 1, messageIdx)

\* messageIdx of onReload (403-405), counted from 1 here; 0 when there is none
reloadIndex(msgs, messageId) ==
  IF messageId # ""
  THEN IF \E i \in 1..Len(msgs) : msgs[i].id = messageId
       THEN CHOOSE i \in 1..Len(msgs) :
              msgs[i].id = messageId /\ \A j \in 1..(i - 1) : msgs[j].id # messageId
       ELSE 0
  ELSE IF Len(msgs) >= 2 THEN Len(msgs) - 1 ELSE 0

onReload(messageId) ==
  /\ RtFrame
  /\ ~Synchronous
  /\ LET messageIdx == reloadIndex(messages, messageId)
     IN  /\ messageIdx > 0
         /\ messages[messageIdx].role = "user"
         /\ \E r \in RunIds :
              /\ runs[r].pc = "unused"
              /\ \A q \in RunIds : q < r => runs[q].pc # "unused"
              /\ LET assistantId == "a" \o ToString(r)
                 IN  /\ messages' = Append(reloadTrimmed(messages, messageIdx),
                           [id |-> assistantId, role |-> "assistant", text |-> "", run |-> r,
                            len |-> 0, runId |-> ""])
                     /\ runs' = [runs EXCEPT ![r] =
                           [NewRun EXCEPT !.pc = "fetch1", !.userId = messages[messageIdx].id,
                                          !.reloadArg = messageId,
                                          !.assistantId = assistantId,
                                          !.input = messages[messageIdx].text,
                                          !.parentId = LastAssistantRunId(
                                                         SubSeq(messages, 1, messageIdx - 1))]]
                     /\ abortRef' = r
  /\ isRunning' = TRUE
  /\ UNCHANGED <<accessToken, refreshToken>>

\* onCancel (436-438): abortRef.current?.abort()
onCancel ==
  /\ RtFrame
  /\ ~Synchronous
  /\ abortRef # 0
  /\ ~runs[abortRef].aborted
  /\ runs' = [runs EXCEPT ![abortRef] =
       [@ EXCEPT !.aborted = TRUE, !.cancelled = TRUE,
                 !.partsAtCancel = MessageContent(messages[AssistantMessage(abortRef)])]]
  /\ UNCHANGED <<messages, isRunning, abortRef, accessToken, refreshToken>>

\* the mutant: the status is left as it is
FinallyStaysRunning ==
  /\ isRunning' = isRunning
  /\ abortRef' = 0

\* the mutant: the abort handle is left as it is
FinallyKeepsHandle ==
  /\ isRunning' = FALSE
  /\ abortRef' = abortRef

\* finally (359-362)
Finally ==
  /\ isRunning' = FALSE
  /\ abortRef' = 0

\* catch (352-358) for an error that is no AbortError, then finally; run is the
\* run record when the error was thrown
Fails(r, run) ==
  /\ runs' = [runs EXCEPT ![r] =
       [run EXCEPT !.pc = "ended", !.endedBy = "error", !.lineQueue = <<>>,
                   !.dirty = FALSE,
                   !.firstPublished = IF @ = <<>> THEN catchError(run.contentParts) ELSE @,
                   !.partsAtCatch = run.contentParts,
                   !.contentParts = catchError(run.contentParts),
                   !.origin = IF run.contentParts = <<>> THEN <<"error">> ELSE run.origin]]
  /\ messages' = updateAssistantMessage(messages, run.assistantId,
                                        Len(catchError(run.contentParts)))
  /\ Finally

\* what a fetch() of authFetch can do
AuthResponse(status, hasBody) == [kind |-> "response", status |-> status, hasBody |-> hasBody]
AuthResponses ==
  { AuthResponse(200, TRUE), AuthResponse(200, FALSE), AuthResponse(401, TRUE),
    AuthResponse(500, TRUE), [kind |-> "network", status |-> 0, hasBody |-> FALSE] }

\* authFetch has returned res (timbal-runtime.tsx 223-229)
Returned(r, run, res) ==
  IF ResponseOk(res.status) /\ res.hasBody
  THEN /\ runs' = [runs EXCEPT ![r] = [run EXCEPT !.pc = "reading"]]
       /\ UNCHANGED <<messages, isRunning, abortRef>>
  ELSE Fails(r, [run EXCEPT !.failStatus = res.status])

\* the first fetch of authFetch settles (part_004 93-113)
Fetch1Settles(r, res) ==
  /\ RtFrame
  /\ ~Synchronous
  /\ runs[r].pc = "fetch1"
  /\ ~runs[r].aborted
  /\ LET run == [runs[r] EXCEPT !.requests = @ + 1]
     IN  IF res.kind = "network" THEN Fails(r, [run EXCEPT !.failStatus = 0])
         ELSE IF res.status = 401 /\ refreshToken # ""
              THEN /\ runs' = [runs EXCEPT ![r] = [run EXCEPT !.pc = "refresh"]]
                   /\ UNCHANGED <<messages, isRunning, abortRef>>
         ELSE Returned(r, run, res)
  /\ UNCHANGED <<accessToken, refreshToken>>

\* refreshAccessToken settles (part_004 45-83); its request carries no abort signal.
\* Refused or failed: clearTokens, and authFetch returns the 401 response.
RefreshSettles(r, ok) ==
  /\ RtFrame
  /\ ~Synchronous
  /\ runs[r].pc = "refresh"
  /\ IF ok
     THEN /\ accessToken' = "at1"
          /\ UNCHANGED refreshToken
          /\ runs' = [runs EXCEPT ![r] = [@ EXCEPT !.pc = "fetch2"]]
          /\ UNCHANGED <<messages, isRunning, abortRef>>
     ELSE /\ accessToken' = ""
          /\ refreshToken' = ""
          /\ Returned(r, runs[r], AuthResponse(401, TRUE))

\* the second fetch of authFetch settles (part_004 103-112)
Fetch2Settles(r, res) ==
  /\ RtFrame
  /\ ~Synchronous
  /\ runs[r].pc = "fetch2"
  /\ ~runs[r].aborted
  /\ LET run == [runs[r] EXCEPT !.requests = @ + 1]
     IN  IF res.kind = "network" THEN Fails(r, [run EXCEPT !.failStatus = 0])
         ELSE Returned(r, run, res)
  /\ UNCHANGED <<accessToken, refreshToken>>

\* the signal is aborted: the pending fetch or read rejects with an AbortError,
\* which the catch block ignores (353), then finally
AbortRejects(r) ==
  /\ RtFrame
  /\ ~Synchronous
  /\ runs[r].pc \in {"fetch1", "fetch2", "reading"}
  /\ runs[r].aborted
  /\ runs' = [runs EXCEPT ![r] = [@ EXCEPT !.pc = "ended", !.endedBy = "abort"]]
  /\ Finally
  /\ UNCHANGED <<messages, accessToken, refreshToken>>

\* the server appends a record to the response body
BodyWrites(r, chars, newline) ==
  /\ RtFrame
  /\ ~Synchronous
  /\ runs[r].pc = "reading"
  /\ ~runs[r].aborted
  /\ ~runs[r].closed
  /\ runs[r].written < MaxEvents
  /\ runs' = [runs EXCEPT ![r] =
       [@ EXCEPT !.wire = @ \o chars \o (IF newline THEN <<NL>> ELSE <<>>),
                 !.written = @ + 1,
                 !.closed = ~newline]]
  /\ UNCHANGED <<messages, isRunning, abortRef, accessToken, refreshToken>>

BodyCloses(r) ==
  /\ RtFrame
  /\ ~Synchronous
  /\ runs[r].pc = "reading"
  /\ ~runs[r].aborted
  /\ ~runs[r].closed
  /\ runs' = [runs EXCEPT ![r] = [@ EXCEPT !.closed = TRUE]]
  /\ UNCHANGED <<messages, isRunning, abortRef, accessToken, refreshToken>>

\* reader.read() gives the next n characters (233-238)
ReadChunk(r, n) ==
  /\ RtFrame
  /\ ~Synchronous
  /\ runs[r].pc = "reading"
  /\ ~runs[r].aborted
  /\ n \in 1..Len(runs[r].wire)
  /\ LET lines == Split(runs[r].buffer \o SubSeq(runs[r].wire, 1, n))
     IN  runs' = [runs EXCEPT ![r] =
           [@ EXCEPT !.wire = Substring(@, n),
                     !.buffer = Last(lines),
                     !.lineQueue = Front(lines),
                     !.pc = IF Front(lines) = <<>> THEN "reading" ELSE "lines"]]
  /\ UNCHANGED <<messages, isRunning, abortRef, accessToken, refreshToken>>

\* the fields parseEvent requires (events.ts 273)
HasRequiredFields(event) ==
  /\ Truthy(event.type)
  /\ Truthy(event.run_id)
  /\ event.path.v # <<>>
  /\ Truthy(event.call_id)

\* history of the fragments, for the claims
EventKind(event) ==
  IF event.type = Str("DELTA") /\ event.item.present
     /\ event.item.type = Str("text_delta") /\ event.item.text_delta.t = "string"
  THEN "text"
  ELSE IF event.type = Str("CHUNK") THEN "text"
  ELSE IF event.type = Str("DELTA") /\ event.item.present /\ event.item.type = Str("tool_use")
       THEN "tool_use"
  ELSE IF event.type = Str("DELTA") /\ event.item.present
          /\ event.item.type = Str("tool_use_delta")
       THEN "tool_use_delta"
  ELSE IF event.type = Str("OUTPUT") THEN "output"
  ELSE "other"

IsTopLevelStart(event) ==
  /\ event.type = Str("START")
  /\ event.run_id.t = "string"
  /\ event.path.t = "string"
  /\ "." \notin {event.path.v[i] : i \in 1..Len(event.path.v)}

Fragment(event) ==
  IF event.type = Str("CHUNK") THEN JsString(event.chunk) ELSE event.item.text_delta.v

Tracked(before, after, event) ==
  LET kind == EventKind(event)
      added == Len(after.contentParts) - Len(before.contentParts)
  IN  [after EXCEPT
         !.lastTok = kind,
         !.origin = @ \o [i \in 1..added |-> kind],
         !.frags = IF kind = "text" THEN @ \o Fragment(event)
                   ELSE IF kind = "tool_use" THEN "" ELSE @,
         !.fragsN = IF kind = "text" THEN @ + 1 ELSE IF kind = "tool_use" THEN 0 ELSE @,
         !.outputSince = IF kind = "output" THEN TRUE
                         ELSE IF kind = "tool_use" THEN FALSE ELSE @,
         !.firstTop = IF @ = "" /\ IsTopLevelStart(event) THEN event.run_id.v ELSE @,
         !.lateStarts = IF before.firstTop # "" /\ event.type = Str("START") THEN @ + 1 ELSE @]

\* one iteration of `for (const line of lines)` (240-338)
ProcessNextLine(r) ==
  /\ RtFrame
  /\ runs[r].pc = "lines"
  /\ LET run == runs[r]
         event == parseLine(Head(run.lineQueue))
         rest == Tail(run.lineQueue)
         next == [run EXCEPT !.lineQueue = rest,
                             !.linesDone = @ + 1,
                             !.pc = IF rest = <<>> THEN "reading" ELSE "lines"]
     IN  IF event.kind # "object"
         THEN /\ runs' = [runs EXCEPT ![r] = next]
              /\ UNCHANGED <<messages, isRunning, abortRef>>
         ELSE LET runId == topLevelRunId(run, event)
                  stamped == IF runId = "" THEN messages
                             ELSE stampRunId(messages, run.userId, run.assistantId, runId)
                  captured == IF runId = "" THEN next ELSE [next EXCEPT !.capturedRunId = runId]
                  out == applyEvent(captured, event)
                  changed == out.run.contentParts # captured.contentParts
                  after == [Tracked(captured, out.run, event) EXCEPT
                              !.dirty = ~out.publish /\ (@ \/ changed),
                              !.incomplete = IF HasRequiredFields(event) THEN @ ELSE @ + 1,
                              !.eventThrew = out.threw,
                              !.firstPublished = IF out.publish /\ @ = <<>>
                                                 THEN out.run.contentParts ELSE @]
              IN  IF out.threw
                  THEN /\ runs' = [runs EXCEPT ![r] =
                            [after EXCEPT !.pc = "ended", !.endedBy = "error", !.lineQueue = <<>>,
                                          !.dirty = FALSE,
                                          !.firstPublished =
                                             IF @ = <<>> THEN catchError(after.contentParts)
                                             ELSE @,
                                          !.partsAtCatch = after.contentParts,
                                          !.contentParts = catchError(after.contentParts),
                                          !.origin = IF after.contentParts = <<>>
                                                     THEN <<"error">> ELSE after.origin]]
                       /\ messages' = updateAssistantMessage(stamped, run.assistantId,
                                                             Len(catchError(after.contentParts)))
                       /\ Finally
                  ELSE /\ runs' = [runs EXCEPT ![r] = after]
                       /\ messages' = IF out.publish
                                      THEN updateAssistantMessage(stamped, run.assistantId,
                                                                  Len(after.contentParts))
                                      ELSE stamped
                       /\ UNCHANGED <<isRunning, abortRef>>
  /\ UNCHANGED <<accessToken, refreshToken>>

\* reader.read() reports done: the residual buffer (341-351), then finally
ReadDone(r) ==
  /\ RtFrame
  /\ ~Synchronous
  /\ runs[r].pc = "reading"
  /\ ~runs[r].aborted
  /\ runs[r].closed
  /\ runs[r].wire = <<>>
  /\ LET out == applyResidual(runs[r])
         added == Len(out.run.contentParts) - Len(runs[r].contentParts)
     IN  /\ runs' = [runs EXCEPT ![r] =
               [out.run EXCEPT !.pc = "ended", !.endedBy = "done",
                               !.dirty = ~out.publish /\ (@ \/ added > 0),
                               !.firstPublished = IF out.publish /\ @ = <<>>
                                                  THEN out.run.contentParts ELSE @,
                               !.origin = @ \o [i \in 1..added |-> "output"],
                               !.outputSince = IF added > 0 THEN TRUE ELSE @]]
         /\ messages' = IF out.publish
                        THEN updateAssistantMessage(messages, runs[r].assistantId,
                                                    Len(out.run.contentParts))
                        ELSE messages
  /\ Finally
  /\ UNCHANGED <<accessToken, refreshToken>>

\* reader.read() rejects: the connection broke (233)
ReadFails(r) ==
  /\ RtFrame
  /\ ~Synchronous
  /\ runs[r].pc = "reading"
  /\ ~runs[r].aborted
  /\ Fails(r, runs[r])
  /\ UNCHANGED <<accessToken, refreshToken>>

\* the records of a response body in the first turn
TurnTokens ==
  {"TH", "TL", "CX", "U1", "U2", "A1", "O1", "OM", "OZ"}

\* the records the server may leave without a final newline
TailTokens == {"OR"}

\* The first turn of a conversation: one submit, its run, and cancel.  Each read
\* takes all that the server has written so far.
FirstTurnNext ==
  \/ \E input \in Inputs : messages = <<>> /\ onNew(input)
  \/ onCancel
  \/ \E r \in RunIds, res \in AuthResponses : Fetch1Settles(r, res)
  \/ \E r \in RunIds, ok \in BOOLEAN : RefreshSettles(r, ok)
  \/ \E r \in RunIds, res \in AuthResponses : Fetch2Settles(r, res)
  \/ \E r \in RunIds : AbortRejects(r)
  \/ \E r \in RunIds, tok \in TurnTokens : BodyWrites(r, JsonLine(tok), TRUE)
  \/ \E r \in RunIds, tok \in TailTokens : BodyWrites(r, JsonLine(tok), FALSE)
  \/ \E r \in RunIds : BodyCloses(r)
  \/ \E r \in RunIds : ReadChunk(r, Len(runs[r].wire))
  \/ \E r \in RunIds : ProcessNextLine(r)
  \/ \E r \in RunIds : ReadDone(r)
  \/ \E r \in RunIds : ReadFails(r)

\* the START event the server sends for run r
StartToken(r) ==
  CASE r = 1 -> "R1" [] r = 2 -> "R2" [] r = 3 -> "R3" [] OTHER -> "R4"

\* the previous record has been consumed
Consumed(r) ==
  /\ runs[r].wire = <<>>
  /\ runs[r].buffer = <<>>

\* A conversation of several turns.  The UI lets the user submit or reload only while
\* it shows no run (the contract of the caller); every request is answered 200; the
\* server sends the START of the run at most once and one text delta at most once.
ConversationNext ==
  \/ \E input \in Inputs : ~isRunning /\ onNew(input)
  \/ \E i \in 1..Len(messages) : ~isRunning /\ onReload(messages[i].id)
  \/ ~isRunning /\ onReload("")
  \/ \E r \in RunIds : Fetch1Settles(r, AuthResponse(200, TRUE))
  \/ \E r \in RunIds :
       Consumed(r) /\ runs[r].capturedRunId = "" /\ BodyWrites(r, JsonLine(StartToken(r)), TRUE)
  \/ \E r \in RunIds :
       Consumed(r) /\ runs[r].contentParts = <<>> /\ BodyWrites(r, JsonLine("TH"), TRUE)
  \/ \E r \in RunIds : BodyCloses(r)
  \/ \E r \in RunIds : ReadChunk(r, Len(runs[r].wire))
  \/ \E r \in RunIds : ProcessNextLine(r)
  \/ \E r \in RunIds : ReadDone(r)

\* what a request of a turn can meet: an answer with a body, a refusal, a failure
TurnResponses ==
  {AuthResponse(200, TRUE), AuthResponse(401, TRUE), [kind |-> "network", status |-> 0, hasBody |-> FALSE]}

\* Turns that end in every way.  The UI lets the user submit or reload only while it
\* shows no run (the contract of the caller) and lets the user cancel at any time;
\* a request is answered, refused or fails; the server closes the body, or the
\* connection breaks.
TurnsNext ==
  \/ \E input \in Inputs : ~isRunning /\ onNew(input)
  \/ ~isRunning /\ onReload("")
  \/ onCancel
  \/ \E r \in RunIds, res \in TurnResponses : Fetch1Settles(r, res)
  \/ \E r \in RunIds, ok \in BOOLEAN : RefreshSettles(r, ok)
  \/ \E r \in RunIds : Fetch2Settles(r, AuthResponse(200, TRUE))
  \/ \E r \in RunIds : AbortRejects(r)
  \/ \E r \in RunIds : BodyCloses(r)
  \/ \E r \in RunIds : ReadDone(r)
  \/ \E r \in RunIds : ReadFails(r)

\* Turns that overlap: the caller submits, reloads and cancels whether or not a run
\* is shown, so a second run can start while the first is in flight.  A request is
\* answered or fails; the server closes the body, or the connection breaks.
OverlapResponses ==
  {AuthResponse(200, TRUE), [kind |-> "network", status |-> 0, hasBody |-> FALSE]}

OverlapNext ==
  \/ \E input \in Inputs : onNew(input)
  \/ onReload("")
  \/ onCancel
  \/ \E r \in RunIds, res \in OverlapResponses : Fetch1Settles(r, res)
  \/ \E r \in RunIds : AbortRejects(r)
  \/ \E r \in RunIds : BodyCloses(r)
  \/ \E r \in RunIds : ReadDone(r)
  \/ \E r \in RunIds : ReadFails(r)

\* One turn that ends in every way: the request is answered, refused or fails; the
\* server sends text deltas and closes the body, or the connection breaks; the user
\* cancels.
EndingsNext ==
  \/ \E input \in Inputs : messages = <<>> /\ onNew(input)
  \/ onCancel
  \/ \E r \in RunIds, res \in AuthResponses : Fetch1Settles(r, res)
  \/ \E r \in RunIds, ok \in BOOLEAN : RefreshSettles(r, ok)
  \/ \E r \in RunIds, res \in AuthResponses : Fetch2Settles(r, res)
  \/ \E r \in RunIds : AbortRejects(r)
  \/ \E r \in RunIds : Consumed(r) /\ BodyWrites(r, JsonLine("TH"), TRUE)
  \/ \E r \in RunIds : BodyCloses(r)
  \/ \E r \in RunIds : ReadChunk(r, Len(runs[r].wire))
  \/ \E r \in RunIds : ProcessNextLine(r)
  \/ \E r \in RunIds : ReadDone(r)
  \/ \E r \in RunIds : ReadFails(r)

\* records of every shape: without the required fields, with an output that is a
\* string, a plain object, an object whose content is a string, an object or an array
\* with a null element
RecordTokens == {"TH", "TM", "U1", "OR", "OP", "OS", "OB", "OZ", "OX"}

\* One turn whose request is answered 200 and whose body holds records of every
\* shape; the last record may come without a newline
RecordsNext ==
  \/ \E input \in Inputs : messages = <<>> /\ onNew(input)
  \/ \E r \in RunIds : Fetch1Settles(r, AuthResponse(200, TRUE))
  \/ \E r \in RunIds, tok \in RecordTokens, newline \in BOOLEAN :
       BodyWrites(r, JsonLine(tok), newline)
  \/ \E r \in RunIds : BodyCloses(r)
  \/ \E r \in RunIds : ReadChunk(r, Len(runs[r].wire))
  \/ \E r \in RunIds : ProcessNextLine(r)
  \/ \E r \in RunIds : ReadDone(r)

\* the records of a response body with several START events
StartTokens == {"S1", "S2", "S3", "TH"}

\* One turn whose body holds START events of the run and of nested steps
RunIdNext ==
  \/ \E input \in Inputs : messages = <<>> /\ onNew(input)
  \/ \E r \in RunIds : Fetch1Settles(r, AuthResponse(200, TRUE))
  \/ \E r \in RunIds, tok \in StartTokens : BodyWrites(r, JsonLine(tok), TRUE)
  \/ \E r \in RunIds : BodyCloses(r)
  \/ \E r \in RunIds : ReadChunk(r, Len(runs[r].wire))
  \/ \E r \in RunIds : ProcessNextLine(r)
  \/ \E r \in RunIds : ReadDone(r)
  \/ \E r \in RunIds : ReadFails(r)

(***************************************************************************)
(* auth/tokens: authFetch (part_004 89-115) and refreshAccessToken         *)
(* (part_004 43-83), called from several places at once                    *)
(***************************************************************************)
CallIds == 1..MaxCalls

NoResponse == [kind |-> "none", status |-> 0, hasBody |-> FALSE]

NewCall ==
  [pc |-> "unused",       \* "fetch1" | "refresh" | "resume" | "fetch2" | "returned" | "rejected"
   fetches |-> 0,         \* history: the target requests issued
   res1 |-> NoResponse,   \* the first response
   res2 |-> NoResponse,   \* history: the second response
   hadToken |-> FALSE,    \* history: refreshToken was set when the first response came
   post |-> 0,            \* the POST whose result the call awaits
   joined |-> FALSE,      \* history: that POST was in flight when the call asked
   refreshed |-> "none",  \* what refreshAccessToken gave the call: "ok" | "fail"
   returned |-> NoResponse]

AfIdle ==
  /\ afCalls = [c \in CallIds |-> NewCall]
  /\ afRefreshPromise = 0
  /\ afInFlight = {}
  /\ afResults = <<>>
  /\ afLoggedOut = FALSE

AfInit == AfIdle

\* the continuation of a call that awaited the refresh runs before anything else
AfSynchronous == \E c \in CallIds : afCalls[c].pc = "resume"

\* if (res.status === 401 && refreshToken) (part_004 101)
\* the mutant: a 401 starts a refresh whether or not a refresh token is set
needsRefreshWithoutToken(status, token) == status = 401

needsRefresh(status, token) == status = 401 /\ token # ""

\* if (refreshPromise) return refreshPromise (part_004 47)
\* the mutant: every call starts its own POST
joinsInFlightNever(promise) == FALSE

joinsInFlight(promise) == promise # 0

\* authFetch is called: the first fetch is issued (part_004 93-99)
authFetch(c) ==
  /\ AfFrame
  /\ ~AfSynchronous
  /\ afCalls[c].pc = "unused"
  /\ \A d \in CallIds : d < c => afCalls[d].pc # "unused"
  /\ afCalls' = [afCalls EXCEPT ![c] = [@ EXCEPT !.pc = "fetch1", !.fetches = 1]]
  /\ UNCHANGED <<afRefreshPromise, afInFlight, afResults, afLoggedOut, accessToken, refreshToken>>

\* the first fetch settles (part_004 93-102); on a 401 with a refresh token the call
\* enters refreshAccessToken, which joins the POST in flight or starts one (45-58)
AfFetch1Settles(c, res) ==
  /\ AfFrame
  /\ ~AfSynchronous
  /\ afCalls[c].pc = "fetch1"
  /\ LET call == [afCalls[c] EXCEPT !.res1 = res, !.hadToken = refreshToken # ""]
         newPost == Len(afResults) + 1
     IN  IF res.kind = "network"
         THEN /\ afCalls' = [afCalls EXCEPT ![c] = [call EXCEPT !.pc = "rejected"]]
              /\ UNCHANGED <<afRefreshPromise, afInFlight, afResults>>
         ELSE IF needsRefresh(res.status, refreshToken)
              THEN IF joinsInFlight(afRefreshPromise)
                   THEN /\ afCalls' = [afCalls EXCEPT ![c] =
                             [call EXCEPT !.pc = "refresh", !.post = afRefreshPromise,
                                          !.joined = TRUE]]
                        /\ UNCHANGED <<afRefreshPromise, afInFlight, afResults>>
                   ELSE /\ afCalls' = [afCalls EXCEPT ![c] =
                             [call EXCEPT !.pc = "refresh", !.post = newPost]]
                        /\ afRefreshPromise' = newPost
                        /\ afInFlight' = afInFlight \cup {newPost}
                        /\ afResults' = Append(afResults, "none")
         ELSE /\ afCalls' = [afCalls EXCEPT ![c] = [call EXCEPT !.pc = "returned", !.returned = res]]
              /\ UNCHANGED <<afRefreshPromise, afInFlight, afResults>>
  /\ UNCHANGED <<accessToken, refreshToken, afLoggedOut>>

\* what the token endpoint can do with a POST: new tokens, a new access token only,
\* a refusal, no answer
PostOutcomes == {"rotated", "ok", "refused", "network"}

PostOk(outcome) == outcome \in {"rotated", "ok"}

\* the POST settles (part_004 60-79): the tokens are replaced or cleared, refreshPromise
\* is reset, and every call that awaits this POST gets its result
PostSettles(post, outcome) ==
  /\ AfFrame
  /\ ~AfSynchronous
  /\ post \in afInFlight
  /\ afInFlight' = afInFlight \ {post}
  /\ afRefreshPromise' = 0
  /\ afResults' = [afResults EXCEPT ![post] = IF PostOk(outcome) THEN "ok" ELSE "fail"]
  /\ UNCHANGED afLoggedOut
  /\ accessToken' = IF PostOk(outcome) THEN "at1" ELSE ""
  /\ refreshToken' = CASE outcome = "rotated" -> "rt1"
                       [] outcome = "ok" -> refreshToken
                       [] OTHER -> ""
  /\ afCalls' = [c \in CallIds |->
       IF afCalls[c].pc = "refresh" /\ afCalls[c].post = post
       THEN [afCalls[c] EXCEPT !.pc = "resume",
                               !.refreshed = IF PostOk(outcome) THEN "ok" ELSE "fail"]
       ELSE afCalls[c]]

\* authFetch goes on after await refreshAccessToken() (part_004 102-114)
AfResumes(c) ==
  /\ AfFrame
  /\ afCalls[c].pc = "resume"
  /\ afCalls' = [afCalls EXCEPT ![c] =
       IF afCalls[c].refreshed = "ok"
       THEN [afCalls[c] EXCEPT !.pc = "fetch2", !.fetches = 2]
       ELSE [afCalls[c] EXCEPT !.pc = "returned", !.returned = afCalls[c].res1]]
  /\ UNCHANGED <<afRefreshPromise, afInFlight, afResults, afLoggedOut, accessToken, refreshToken>>

\* the second fetch settles (part_004 103-114)
AfFetch2Settles(c, res) ==
  /\ AfFrame
  /\ ~AfSynchronous
  /\ afCalls[c].pc = "fetch2"
  /\ afCalls' = [afCalls EXCEPT ![c] =
       IF res.kind = "network"
       THEN [@ EXCEPT !.pc = "rejected", !.res2 = res]
       ELSE [@ EXCEPT !.pc = "returned", !.res2 = res, !.returned = res]]
  /\ UNCHANGED <<afRefreshPromise, afInFlight, afResults, afLoggedOut, accessToken, refreshToken>>

AfNext ==
  \/ \E c \in CallIds : authFetch(c)
  \/ \E c \in CallIds, res \in AuthResponses : AfFetch1Settles(c, res)
  \/ \E post \in afInFlight, outcome \in PostOutcomes : PostSettles(post, outcome)
  \/ \E c \in CallIds : AfResumes(c)
  \/ \E c \in CallIds, res \in AuthResponses : AfFetch2Settles(c, res)

\* setTokens(access, refresh) after a login (part_004 17-21, part_003 548-550)
setTokens(access, refresh) ==
  /\ AfFrame
  /\ ~AfSynchronous
  /\ accessToken' = access
  /\ refreshToken' = refresh
  /\ afLoggedOut' = FALSE
  /\ UNCHANGED <<afCalls, afRefreshPromise, afInFlight, afResults>>

\* logout: clearTokens() (part_003 563-567, part_004 23-27); refreshPromise and the
\* POST it stands for are left alone.  The SDK is told of the change in a later task
\* (syncTimbalToken, part_004 33-37), which is updateSessionToken of the transport
logout ==
  /\ AfFrame
  /\ ~AfSynchronous
  /\ accessToken' = ""
  /\ refreshToken' = ""
  /\ afLoggedOut' = TRUE
  /\ UNCHANGED <<afCalls, afRefreshPromise, afInFlight, afResults>>

LogoutNext ==
  \/ AfNext
  \/ logout
  \/ setTokens("at2", "rt2")

\* C39, as stated: after logout both tokens stay absent until setTokens runs again,
\* whatever a token refresh that was in flight at logout does
C39_LogoutClearsTokens == afLoggedOut => accessToken = "" /\ refreshToken = ""

(***************************************************************************)
(* Claims about authFetch and refreshAccessToken                           *)
(***************************************************************************)
\* C15: a call of authFetch issues the target request at most twice; it issues the
\* second exactly when the first response was a 401, a refresh token was set and the
\* refresh succeeded; otherwise it returns the first response, and when there was a
\* second request it returns the second response, whatever its status
C15_AtMostOneRetry ==
  \A c \in CallIds :
    LET call == afCalls[c]
        retried == /\ call.res1.status = 401
                   /\ call.hadToken
                   /\ call.post # 0
                   /\ afResults[call.post] = "ok"
    IN  /\ call.fetches <= 2
        /\ call.fetches = 2 => retried
        /\ call.pc \in {"returned", "rejected"} /\ retried => call.fetches = 2
        /\ call.pc = "returned" =>
             call.returned = IF call.fetches = 2 THEN call.res2 ELSE call.res1

\* a call whose first and second response were both 401: it returned the second
C15_Witness ==
  \E c \in CallIds :
    /\ afCalls[c].pc = "returned"
    /\ afCalls[c].fetches = 2
    /\ afCalls[c].res1.status = 401
    /\ afCalls[c].returned.status = 401

\* C16: at most one POST to the token endpoint is in flight at any time, and a call
\* that asked for a refresh while one was in flight got the result of that POST
C16_RefreshDeduplicated ==
  /\ Cardinality(afInFlight) <= 1
  /\ \A c \in CallIds :
       afCalls[c].joined =>
         /\ afCalls[c].post \in 1..Len(afResults)
         /\ afCalls[c].refreshed = afResults[afCalls[c].post]
         /\ afCalls[c].refreshed = "none" <=> afCalls[c].post \in afInFlight

\* two calls got a 401 each, the second while the POST of the first was in flight,
\* and both received the result of that one POST
C16_Witness ==
  /\ Len(afResults) = 1
  /\ afInFlight = {}
  /\ \E c, d \in CallIds :
       /\ c # d
       /\ afCalls[c].post = 1
       /\ afCalls[d].post = 1
       /\ afCalls[d].joined
       /\ afCalls[c].refreshed = "ok"
       /\ afCalls[d].refreshed = "ok"

(***************************************************************************)
(* Claims about the chat runtime                                           *)
(***************************************************************************)
Started(r) == runs[r].pc # "unused"

\* the content of the assistant message of run r, as the UI reads it
Published(r) == MessageContent(messages[AssistantMessage(r)])

\* run r is about to process a line that parses to an event
Processing(r) ==
  /\ runs[r].pc = "lines"
  /\ parseLine(Head(runs[r].lineQueue)).kind = "object"

CurrentEvent(r) == parseLine(Head(runs[r].lineQueue))

Prefix(p, n) == SubSeq(p, 1, n)

HasId(p, id) == \E i \in 1..Len(p) : p[i].type = "tool-call" /\ p[i].toolCallId = id

HasTextPart(p, text) == \E i \in 1..Len(p) : p[i] = TextPart(text)

NoAdjacentTextParts(p) ==
  \A i \in 1..(Len(p) - 1) : ~(p[i].type = "text" /\ p[i + 1].type = "text")

\* a text fragment goes to the last part when that is a text part, else to a new one
TextFragmentStep(r) ==
  LET p == runs[r].contentParts
      q == runs'[r].contentParts
      f == Fragment(CurrentEvent(r))
  IN  Processing(r) /\ EventKind(CurrentEvent(r)) = "text" =>
        IF p # <<>> /\ Last(p).type = "text"
        THEN q = [p EXCEPT ![Len(p)].text = @ \o f]
        ELSE q = Append(p, TextPart(f))

\* C3, as stated: the text fragments that arrived since the last DELTA/tool_use (or
\* since the start of the run) are in one text part that equals their concatenation
C3_FragmentsInOnePart ==
  \A r \in RunIds :
    runs[r].fragsN > 0 => HasTextPart(runs[r].contentParts, runs[r].frags)

\* C3: each text_delta fragment and each CHUNK payload is appended to the last part
\* when that is a text part and otherwise opens a new text part; two text parts are
\* never adjacent; and the fragments that arrived since the last DELTA/tool_use (or
\* since the start of the run) are the whole text of the last part, their
\* concatenation in arrival order, as long as no OUTPUT event was processed since then
C3_TextFragments ==
  /\ [](\A r \in RunIds :
          /\ NoAdjacentTextParts(runs[r].contentParts)
          /\ runs[r].fragsN > 0 /\ ~runs[r].outputSince =>
               Last(runs[r].contentParts) = TextPart(runs[r].frags))
  /\ [][\A r \in RunIds : TextFragmentStep(r)]_vars

\* 'Hel' then 'lo' after a tool call: one part 'Hello' behind the tool-call part
C3_Witness ==
  \E r \in RunIds :
    /\ runs[r].fragsN = 2
    /\ runs[r].frags = "Hello"
    /\ Len(runs[r].contentParts) = 2
    /\ runs[r].contentParts[1].type = "tool-call"
    /\ runs[r].contentParts[2] = TextPart("Hello")

\* the effect of one DELTA on the parts, by the type of its item
ToolUseStep(r) ==
  LET p == runs[r].contentParts
      q == runs'[r].contentParts
      item == CurrentEvent(r).item
  IN  Processing(r) /\ EventKind(CurrentEvent(r)) = "tool_use" =>
        /\ Len(q) = Len(p) + 1
        /\ Prefix(q, Len(p)) = p
        /\ Last(q).type = "tool-call"
        /\ Last(q).result = Undef
        /\ Truthy(item.id) => Last(q).toolCallId = item.id.v
        /\ Truthy(item.name) => Last(q).toolName = item.name.v
        /\ Last(q).argsText = StringOrStringify(item.input)

TextAfterToolCallStep(r) ==
  LET p == runs[r].contentParts
      q == runs'[r].contentParts
  IN  /\ Processing(r)
      /\ EventKind(CurrentEvent(r)) = "text"
      /\ p # <<>>
      /\ Last(p).type = "tool-call"
      => q = Append(p, TextPart(Fragment(CurrentEvent(r))))

ToolUseDeltaStep(r) ==
  LET p == runs[r].contentParts
      q == runs'[r].contentParts
      item == CurrentEvent(r).item
  IN  Processing(r) /\ EventKind(CurrentEvent(r)) = "tool_use_delta" =>
        IF Truthy(item.id) /\ Truthy(item.input_delta) /\ HasId(p, item.id.v)
        THEN \E i \in 1..Len(p) :
               /\ p[i].type = "tool-call"
               /\ p[i].toolCallId = item.id.v
               /\ q = [p EXCEPT ![i].argsText = @ \o item.input_delta.v]
        ELSE q = p

\* C4: a DELTA/tool_use appends one tool-call part with the id, name and initial input
\* of the event and changes no other part; text that arrives when the last part is a
\* tool call goes to a new text part; a DELTA/tool_use_delta appends its fragment to
\* the arguments of a part with the same id and changes no other part; with an id
\* that no part has it changes nothing
C4_ToolCallDeltas ==
  [][\A r \in RunIds : ToolUseStep(r) /\ TextAfterToolCallStep(r) /\ ToolUseDeltaStep(r)]_vars

\* tool call t1, then text, then a tool_use_delta for t1: the arguments of t1 are
\* complete and the text part behind it is untouched
C4_Witness ==
  \E r \in RunIds :
    /\ runs[r].lastTok = "tool_use_delta"
    /\ Len(runs[r].contentParts) = 2
    /\ runs[r].contentParts[1] = ToolCallPart("t1", "search", "{\"q\":\"cats\"}", Undef)
    /\ runs[r].contentParts[2].type = "text"

\* the ids of the tool_use blocks of an OUTPUT event
BlockIds(output) ==
  { output.blocks[i].id.v : i \in { j \in 1..Len(output.blocks) :
                                      /\ output.blocks[j].kind = "object"
                                      /\ output.blocks[j].type = Str("tool_use")
                                      /\ Truthy(output.blocks[j].id) } }

OutputToolUseStep(r) ==
  LET p == runs[r].contentParts
      q == runs'[r].contentParts
      ids == BlockIds(CurrentEvent(r).output)
  IN  Processing(r) /\ EventKind(CurrentEvent(r)) = "output" =>
        /\ Len(q) >= Len(p)
        \* the parts that were there keep their type, id, name and arguments, and
        \* their result unless a block names their id
        /\ \A i \in 1..Len(p) :
             /\ q[i].type = p[i].type
             /\ q[i].toolCallId = p[i].toolCallId
             /\ q[i].toolName = p[i].toolName
             /\ q[i].argsText = p[i].argsText
             /\ p[i].toolCallId \notin ids => q[i].result = p[i].result
        \* an id that has a part: the result of a part with that id is set
        /\ \A id \in ids :
             HasId(p, id) =>
               \E i \in 1..Len(p) :
                 /\ p[i].type = "tool-call"
                 /\ p[i].toolCallId = id
                 /\ q[i].result = ToolResult
        \* the parts appended: no tool call with an id that had a part, and resolved
        /\ \A i \in (Len(p) + 1)..Len(q) :
             q[i].type = "tool-call" =>
               /\ ~HasId(p, q[i].toolCallId)
               /\ q[i].result = ToolResult

\* C5: a tool_use block of OUTPUT whose id has a part sets the result of that part and
\* appends nothing; only a block with an id that has no part appends a part, which is
\* already resolved; no part created by OUTPUT has the id of a part before it
C5_OutputResolvesToolCall ==
  /\ [](\A r \in RunIds : \A i, j \in 1..Len(runs[r].contentParts) :
          /\ i < j
          /\ runs[r].origin[j] = "output"
          /\ runs[r].contentParts[i].type = "tool-call"
          /\ runs[r].contentParts[j].type = "tool-call"
          => runs[r].contentParts[i].toolCallId # runs[r].contentParts[j].toolCallId)
  /\ [][\A r \in RunIds : OutputToolUseStep(r)]_vars

\* tool call t1 streamed, then an OUTPUT with a tool_use block t1: still one part,
\* now with its result
C5_Witness ==
  \E r \in RunIds :
    /\ runs[r].lastTok = "output"
    /\ runs[r].origin = <<"tool_use">>
    /\ runs[r].contentParts = <<ToolCallPart("t1", "search", "{\"q\":", ToolResult)>>

OutputTextStep(r) ==
  LET p == runs[r].contentParts
      q == runs'[r].contentParts
  IN  Processing(r) /\ EventKind(CurrentEvent(r)) = "output" =>
        \A i \in 1..Len(p) :
          p[i].type = "text" /\ p[i].text # "" => q[i] = p[i]

\* C6: an OUTPUT event changes no text part that holds text; the text of a text block
\* only goes to a text part that is empty
C6_BackfillOnlyWhenEmpty ==
  [][\A r \in RunIds : OutputTextStep(r)]_vars

\* streamed text 'Hel', then an OUTPUT with the text block 'Hello': the part still
\* reads 'Hel'
C6_Witness ==
  \E r \in RunIds :
    /\ runs[r].lastTok = "output"
    /\ runs[r].origin[1] = "text"
    /\ runs[r].contentParts[1] = TextPart("Hel")
    /\ Len(runs[r].contentParts) = 3

\* C7, as stated: once cancel() has aborted a run, the content of its assistant
\* message stays what it was at that moment
C7_CancelKeepsContent ==
  \A r \in RunIds :
    runs[r].cancelled => Published(r) = runs[r].partsAtCancel

\* C8: a run that ended with an error shows the failure text alone if no part had
\* accumulated, and otherwise exactly the parts accumulated, without a notice
C8_FailureNotice ==
  \A r \in RunIds :
    runs[r].endedBy = "error" =>
      Published(r) = IF runs[r].partsAtCatch = <<>>
                     THEN <<TextPart(FailureText)>>
                     ELSE runs[r].partsAtCatch

\* the read failed after 'Hel' had streamed: the message shows 'Hel' and no notice
C8_Witness ==
  \E r \in RunIds :
    /\ runs[r].endedBy = "error"
    /\ ~runs[r].cancelled
    /\ runs[r].partsAtCatch = <<TextPart("Hel")>>
    /\ Published(r) = <<TextPart("Hel")>>

IdsOf(msgs) == {msgs[i].id : i \in 1..Len(msgs)}

IndexOf(msgs, id) == CHOOSE i \in 1..Len(msgs) : msgs[i].id = id

\* the run id of the last assistant message of msgs is id; "" when there is no
\* assistant message
ParentIs(msgs, id) ==
  /\ (\A i \in 1..Len(msgs) : msgs[i].role # "assistant") => id = ""
  /\ \A i \in 1..Len(msgs) :
       /\ msgs[i].role = "assistant"
       /\ \A j \in (i + 1)..Len(msgs) : msgs[j].role # "assistant"
       => id = msgs[i].runId

\* this step is the call onNew / onReload that starts run r
SubmitStep(r) ==
  /\ runs[r].pc = "unused"
  /\ runs'[r].pc = "fetch1"
  /\ runs'[r].reloadArg = "-"

ReloadStep(r) ==
  /\ runs[r].pc = "unused"
  /\ runs'[r].pc = "fetch1"
  /\ runs'[r].reloadArg # "-"

SubmitEffect(r) ==
  LET n == Len(messages)
  IN  /\ Len(messages') = n + 2
      /\ Prefix(messages', n) = messages
      /\ messages'[n + 1].role = "user"
      /\ messages'[n + 1].id \notin IdsOf(messages)
      /\ messages'[n + 1].text \in Inputs
      /\ messages'[n + 1].text = runs'[r].input
      /\ messages'[n + 2].role = "assistant"
      /\ messages'[n + 2].id \notin IdsOf(messages) \cup {messages'[n + 1].id}
      /\ SubSeq(runs'[messages'[n + 2].run].contentParts, 1, messages'[n + 2].len) = <<>>
      /\ isRunning'
      /\ ParentIs(messages, runs'[r].parentId)

\* C12: submit appends a user message with the text and then an assistant message
\* without content parts, sets the status to running, and takes as parent id the run
\* id of the last assistant message of the transcript before the call, none ("")
\* when there is no assistant message or it has no run id
C12_Submit ==
  [][\A r \in RunIds : SubmitStep(r) => SubmitEffect(r)]_vars

\* the second turn was submitted with the run id of the first turn as parent
C12_Witness ==
  /\ Len(messages) = 4
  /\ messages[2].runId = "run1"
  /\ messages[3].id = runs[2].userId
  /\ runs[2].reloadArg = "-"
  /\ runs[2].parentId = "run1"

ReloadEffect(r) ==
  LET arg == runs'[r].reloadArg
      i == IF arg = "" THEN Len(messages) - 1 ELSE IndexOf(messages, arg)
      n == Len(messages')
  IN  /\ arg # "" => arg \in IdsOf(messages)
      /\ messages[i].role = "user"
      /\ n = i + 1
      /\ Prefix(messages', i) = Prefix(messages, i)
      /\ messages'[n].role = "assistant"
      /\ messages'[n].id \notin IdsOf(messages)
      /\ messages'[n].runId = ""
      /\ SubSeq(runs'[messages'[n].run].contentParts, 1, messages'[n].len) = <<>>
      /\ runs'[r].input = messages[i].text
      /\ isRunning'
      /\ ParentIs(Prefix(messages, i - 1), runs'[r].parentId)
      /\ i = 1 => runs'[r].parentId = ""

\* C13: regenerate for the user message at position i (the message with the given id,
\* or the second-to-last message when no id is given) leaves the messages up to i
\* followed by one new assistant message without content, and takes as parent id the
\* run id of the last assistant message before i, none for the first turn
C13_Regenerate ==
  [][\A r \in RunIds : ReloadStep(r) => ReloadEffect(r)]_vars

\* the first of two turns was regenerated: the second turn is gone, no parent id
C13_Witness ==
  /\ Len(messages) = 2
  /\ messages[1].id = "u1"
  /\ messages[2].id = "a3"
  /\ runs[2].endedBy = "done"
  /\ runs[3].reloadArg = "u1"
  /\ runs[3].parentId = ""

\* C14: once a START whose path has no "." was processed in a turn, the user message
\* and the assistant message of the turn carry the run id of the first such event,
\* whatever START events and content publishes follow
C14_RunIdStamped ==
  \A r \in RunIds :
    Started(r) /\ runs[r].firstTop # "" =>
      \A i \in 1..Len(messages) :
        messages[i].id \in {runs[r].userId, runs[r].assistantId} =>
          messages[i].runId = runs[r].firstTop

\* after the first top-level START came another START and published text
C14_Witness ==
  \E r \in RunIds :
    /\ runs[r].firstTop = "r1"
    /\ runs[r].lateStarts > 0
    /\ runs[r].lastTok = "text"
    /\ Published(r) # <<>>
    /\ messages[1].runId = "r1"
    /\ messages[2].runId = "r1"

\* the number of newlines in text
Newlines(text) == Len(SelectSeq(text, LAMBDA c : c = NL))

\* one iteration of the loop over the lines of a chunk takes the first line that is
\* left and no other
OneLineStep(r) ==
  runs[r].pc = "lines" /\ runs'[r] # runs[r] =>
    /\ runs'[r].linesDone = runs[r].linesDone + 1
    /\ runs'[r].pc # "ended" => runs'[r].lineQueue = Tail(runs[r].lineQueue)
    /\ runs'[r].pc = "ended" \/ ~parseLine(Head(runs[r].lineQueue)).kind = "object"
         \/ runs'[r].contentParts = applyEvent(runs[r], CurrentEvent(r)).run.contentParts

\* a read hands on the complete lines of the carry-over and the chunk, in order
ReadStep(r) ==
  runs[r].pc = "reading" /\ runs'[r].pc \in {"reading", "lines"}
  /\ runs'[r].wire # runs[r].wire /\ Len(runs'[r].wire) < Len(runs[r].wire) =>
    LET chunk == SubSeq(runs[r].wire, 1, Len(runs[r].wire) - Len(runs'[r].wire))
    IN  Flatten([i \in 1..Len(runs'[r].lineQueue) |-> runs'[r].lineQueue[i] \o <<NL>>])
          \o runs'[r].buffer = runs[r].buffer \o chunk

C22_PublishedSnapshotImmutable ==
  \A r \in RunIds :
    Prefix(runs[r].contentParts, Len(runs[r].firstPublished)) = runs[r].firstPublished

\* C23, as stated: every event handed on by Timbal.streamRun and every event handed
\* to the reducer of the chat runtime has type, run_id, path and call_id
C23_RequiredFieldsPresent ==
  /\ \A i \in 1..Len(srEmitted) : HasRequiredFields(srEmitted[i])
  /\ \A r \in RunIds : runs[r].incomplete = 0

\* the content parts after line has gone through the loop body as a line of a chunk
LineEffect(run, line) ==
  IF parseLine(line).kind = "object"
  THEN applyEvent(run, parseLine(line)).run.contentParts
  ELSE run.contentParts

\* C24, as stated: when the stream ends, the carry-over has the effect it would have
\* had as a line: on the events streamRun yields, and on the content parts of the run
C24_ResidualAsLine ==
  [][ /\ (srPc = "streaming" /\ srPc' = "done") =>
           srEmitted' = srEmitted \o ProcessLine(srBuffer).events
      /\ \A r \in RunIds :
           (runs[r].pc = "reading" /\ runs'[r].endedBy = "done") =>
             runs'[r].contentParts = LineEffect(runs[r], runs[r].buffer) ]_vars

\* C26: an OUTPUT event whose non-empty output has no content array appends one
\* text part holding the output when the run has no part yet, and changes
\* nothing when it has one
UnstructuredOutputStep(r) ==
  LET output == CurrentEvent(r).output
      p == runs[r].contentParts
  IN  /\ Processing(r)
      /\ runs'[r].linesDone = runs[r].linesDone + 1
      /\ EventKind(CurrentEvent(r)) = "output"
      /\ OutputTruthy(output)
      /\ output.content # "array"
      => runs'[r].contentParts = IF p = <<>> THEN <<TextPart(OutputText(output))>> ELSE p

C26_UnstructuredOutput == [][\A r \in RunIds : UnstructuredOutputStep(r)]_vars

\* the stream of run r is in flight: streamAssistantResponse has been called for
\* it and has not reached the end of its finally block
InFlight(r) == runs[r].pc \notin {"unused", "ended"}

\* C27: when submit and regenerate are called only while the status is idle, at
\* most one stream is in flight, the status is running exactly while a stream is
\* in flight, the abort handle refers to the run in flight for that whole time,
\* and cancel aborts the run in flight
C27_OneRunInFlight ==
  /\ \A r, q \in RunIds : InFlight(r) /\ InFlight(q) => r = q
  /\ isRunning <=> \E r \in RunIds : InFlight(r)
  /\ \A r \in RunIds : InFlight(r) => abortRef = r
  /\ abortRef # 0 => InFlight(abortRef) /\ isRunning
  /\ \A r \in RunIds : runs[r].cancelled => runs[r].aborted

\* a second run has been submitted, is in flight and has been cancelled
C27_Witness ==
  \E r \in RunIds :
    r > 1 /\ InFlight(r) /\ runs[r].aborted /\ isRunning /\ abortRef = r /\ runs[1].pc = "ended"

PartGrown(p, q) ==
  /\ q.type = p.type
  /\ q.toolCallId = p.toolCallId
  /\ q.toolName = p.toolName
  /\ StartsWith(q.text, p.text)
  /\ StartsWith(q.argsText, p.argsText)

\* C29: within one run no content part is removed or moved, and the text and the
\* argument text of a part only grow at their end
AppendOnlyStep(r) ==
  LET p == runs[r].contentParts
      q == runs'[r].contentParts
  IN  Started(r) =>
        /\ Len(p) <= Len(q)
        /\ \A i \in 1..Len(p) : PartGrown(p[i], q[i])

C29_AppendOnly == [][\A r \in RunIds : AppendOnlyStep(r)]_vars

\* 'Hel' was published alone; since then the text has grown to 'Hello' and a tool
\* call with its arguments has been appended behind it
C29_Witness ==
  \E r \in RunIds :
    /\ runs[r].firstPublished = <<TextPart("Hel")>>
    /\ Len(runs[r].contentParts) = 2
    /\ runs[r].contentParts[1] = TextPart("Hello")
    /\ runs[r].contentParts[2].type = "tool-call"
    /\ runs[r].contentParts[2].argsText = "{\"q\":"

\* C30: no record that parses as JSON makes a run fail: applying it throws
\* nothing, the run does not end with an error where the request was answered
\* and every read succeeded, and no failure text is published
C30_NoRecordFailsRun ==
  \A r \in RunIds :
    /\ ~runs[r].eventThrew
    /\ runs[r].failStatus = -1 => runs[r].endedBy # "error"
    /\ Started(r) => ~HasTextPart(Published(r), FailureText)

\* C35: every entry id -> i of the tool-call index names a position of the list
\* of content parts, and the part there is a tool call with that id
C35_ToolCallIndex ==
  \A r \in RunIds :
    \A id \in DOMAIN runs[r].toolCallMap :
      LET i == runs[r].toolCallMap[id]
      IN  /\ i \in 1..Len(runs[r].contentParts)
          /\ runs[r].contentParts[i].type = "tool-call"
          /\ runs[r].contentParts[i].toolCallId = id

\* two tool_use events with the id t1: two parts, and the index names the second
C35_Witness ==
  \E r \in RunIds :
    /\ Len(runs[r].contentParts) = 2
    /\ runs[r].contentParts[1].toolCallId = "t1"
    /\ runs[r].contentParts[2].toolCallId = "t1"
    /\ runs[r].toolCallMap["t1"] = 2

\* the texts of the text parts of a message, one after the other
RECURSIVE AllText(_)
AllText(parts) ==
  IF parts = <<>> THEN ""
  ELSE (IF Head(parts).type = "text" THEN Head(parts).text ELSE "") \o AllText(Tail(parts))

\* C36: once text has been streamed into the message, an OUTPUT event adds no
\* text to it, whatever the last part is at that moment
OutputAddsNoText(r) ==
  /\ Processing(r)
  /\ runs'[r].linesDone = runs[r].linesDone + 1
  /\ EventKind(CurrentEvent(r)) = "output"
  /\ AllText(runs[r].contentParts) # ""
  => AllText(runs'[r].contentParts) = AllText(runs[r].contentParts)

C36_OutputAddsNoText == [][\A r \in RunIds : OutputAddsNoText(r)]_vars

\* C40, as stated: the cleanup of a run touches only that run; while a run is in
\* flight the status is running and the abort handle is that of a run in flight,
\* also when runs overlap, so that cancel() reaches a run that is still streaming
C40_CleanupOfOwnRunOnly ==
  (\E r \in RunIds : InFlight(r)) =>
    /\ isRunning
    /\ abortRef # 0
    /\ InFlight(abortRef)

\* C20, as stated: a run shows the failure text for a request that failed with a
\* network error, a timeout or a status of 500 or more only when that request was a
\* call of Timbal.stream whose retries are exhausted
C20_RunsThroughRetryingStream ==
  \A r \in RunIds :
    ( /\ runs[r].endedBy = "error"
      /\ runs[r].failStatus = 0 \/ runs[r].failStatus >= 500
      /\ Published(r) = <<TextPart(FailureText)>> )
    => /\ rqSite = "stream"
       /\ rqPc = "threw"
       /\ Len(rqLog) = runs[r].requests

\* C38: no request is sent before updateSessionToken has been called once; a
\* request made before waits for exactly that, is sent with the credentials of
\* the moment it is sent, and once the client is ready it stays ready
C38_WaitsForFirstToken ==
  /\ [](rqSent # <<>> => tbIsReady)
  /\ [](rqPc = "ready" => (tbIsReady <=> ENABLED FetchDispatched))
  /\ [][ /\ tbIsReady => tbIsReady'
         /\ rqSent' # rqSent =>
              /\ tbIsReady
              /\ rqSent' = Append(rqSent,
                   [apiKey |-> cfgApiKey, sessionToken |-> cfgSessionToken,
                    authorization |-> buildHeaders(cfgDefaultHeaders, cfgApiKey,
                                                   cfgSessionToken, rqOptionsHeaders)]) ]_vars

\* the token was set twice while the request waited or ran, and a request went out
\* with the second token
C38_Witness ==
  /\ Len(rqSent) >= 1
  /\ rqSent[Len(rqSent)].sessionToken = "st2"
  /\ rqSent[Len(rqSent)].apiKey = ""
  /\ rqSent[Len(rqSent)].authorization = Bearer("st2")

(***************************************************************************)
(* Timbal.stream with the signal of its caller and the timer of _fetch     *)
(***************************************************************************)
\* config.timeout: undefined, 0, or a number of milliseconds
TimeoutConfigs ==
  {[set |-> FALSE, ms |-> 0], [set |-> TRUE, ms |-> 0], [set |-> TRUE, ms |-> 30000]}

\* this.config.timeout ? setTimeout(...) : null (client.ts 124-126)
TimerArmed(timeout) == timeout.set /\ timeout.ms # 0

\* { ...requestOptions, signal: controller.signal } (client.ts 129-132): the key
\* written last wins, whatever options.signal was
fetchSignal(optionsSignal) == "controller"

\* whether the signal fetch() was given has aborted
FetchSignalAborted ==
  CASE tcFetchSignal = "controller" -> tcControllerAborted
    [] tcFetchSignal = "options" -> tcOptionsSignal = "aborted"
    [] OTHER -> FALSE

TcIdle ==
  /\ cfgTimeout = [set |-> FALSE, ms |-> 0]
  /\ tcOptionsSignal = "none"
  /\ tcPc = "idle"
  /\ tcControllerAborted = FALSE
  /\ tcTimeoutId = "null"
  /\ tcFetchSignal = "none"
  /\ tcRetryCount = 0
  /\ tcChunks = 0
  /\ tcThrown = NoError

\* new Timbal(config), then stream(endpoint, options) with retryCount = 0; the caller
\* may pass a signal, which may have aborted already
TcInit ==
  /\ cfgTimeout \in TimeoutConfigs
  /\ tcOptionsSignal \in {"none", "live", "aborted"}
  /\ tcPc = "ready"
  /\ tcControllerAborted = FALSE
  /\ tcTimeoutId = "null"
  /\ tcFetchSignal = "none"
  /\ tcRetryCount = 0
  /\ tcChunks = 0
  /\ tcThrown = NoError

\* the client of the call: as RqIdle, with a configured number of retries
TcClient ==
  /\ rqSite = "none"
  /\ cfgRetryAttempts \in RetryAttemptsConfigs
  /\ cfgRetryDelay = [set |-> FALSE, ms |-> 0]
  /\ cfgApiKey = ""
  /\ cfgDefaultHeaders = NoHeader
  /\ cfgSessionToken = ""
  /\ tbIsReady = FALSE
  /\ rqOptionsHeaders = NoHeader
  /\ rqSent = <<>>
  /\ rqPc = "idle"
  /\ rqRetryCount = 0
  /\ rqThrown = NoError
  /\ rqLog = <<>>
  /\ rqSleeps = <<>>

\* _fetch up to the call of fetch() (client.ts 123-132): a new controller, the timer
\* when a timeout is configured, and the signal of the controller goes to fetch()
TcFetchIssued ==
  /\ TcFrame
  /\ tcPc = "ready"
  /\ tcControllerAborted' = FALSE
  /\ tcTimeoutId' = IF TimerArmed(cfgTimeout) THEN "armed" ELSE "null"
  /\ tcFetchSignal' = fetchSignal(tcOptionsSignal)
  /\ tcPc' = "headers"
  /\ UNCHANGED <<cfgTimeout, tcOptionsSignal, tcRetryCount, tcChunks, tcThrown>>

\* the caller calls abort() on its controller
CallerAborts ==
  /\ TcFrame
  /\ tcOptionsSignal = "live"
  /\ tcPc \in {"ready", "headers", "reading", "sleeping"}
  /\ tcOptionsSignal' = "aborted"
  /\ UNCHANGED <<cfgTimeout, tcPc, tcControllerAborted, tcTimeoutId, tcFetchSignal,
                 tcRetryCount, tcChunks, tcThrown>>

\* the timer runs out: () => controller.abort() (client.ts 125)
TimerFires ==
  /\ TcFrame
  /\ tcTimeoutId = "armed"
  /\ tcTimeoutId' = "fired"
  /\ tcControllerAborted' = TRUE
  /\ UNCHANGED <<cfgTimeout, tcOptionsSignal, tcPc, tcFetchSignal, tcRetryCount, tcChunks,
                 tcThrown>>

\* clearTimeout(timeoutId) (client.ts 134, 142)
clearTimeout(timeoutId) == IF timeoutId = "armed" THEN "cleared" ELSE timeoutId

\* what fetch() can do while its signal has not aborted
HeaderOutcomes ==
  {FetchResponse(200, Undef, TRUE), NoBodyResponse(204), FetchResponse(404, Undef, FALSE),
   FetchResponse(503, Undef, FALSE), FetchRejects("network")}

\* await fetch() settles (client.ts 128-165), then stream decides (219-259): fetch()
\* rejects with AbortError when its signal has aborted
TcFetchSettles(outcome) ==
  /\ TcFrame
  /\ tcPc = "headers"
  /\ LET seen == IF FetchSignalAborted THEN FetchRejects("abort") ELSE outcome
         e == streamTry(seen)
         retry == e # NoError /\ streamShouldRetry(e, tcRetryCount)
     IN  /\ tcPc' = IF e = NoError THEN "reading" ELSE IF retry THEN "sleeping" ELSE "threw"
         /\ tcThrown' = IF e # NoError /\ ~retry THEN e ELSE tcThrown
  /\ tcTimeoutId' = clearTimeout(tcTimeoutId)
  /\ UNCHANGED <<cfgTimeout, tcOptionsSignal, tcControllerAborted, tcFetchSignal, tcRetryCount,
                 tcChunks>>

\* await reader.read() settles (client.ts 231-235): a chunk, the end of the body, or
\* a rejection, which is no TimbalApiError and is thrown on (239-258); the read
\* rejects with AbortError when the signal of the fetch() has aborted
TcReadSettles(result) ==
  /\ TcFrame
  /\ tcPc = "reading"
  /\ LET seen == IF FetchSignalAborted THEN "AbortError" ELSE result
         e == IF seen \in {"chunk", "done"} THEN NoError ELSE OtherError(seen)
         retry == e # NoError /\ streamShouldRetry(e, tcRetryCount)
     IN  /\ seen = "chunk" => tcChunks < MaxLines
         /\ tcChunks' = IF seen = "chunk" THEN tcChunks + 1 ELSE tcChunks
         /\ tcPc' = CASE seen = "chunk" -> "reading"
                      [] seen = "done" -> "returned"
                      [] retry -> "sleeping"
                      [] OTHER -> "threw"
         /\ tcThrown' = IF e # NoError /\ ~retry THEN e ELSE tcThrown
  /\ UNCHANGED <<cfgTimeout, tcOptionsSignal, tcControllerAborted, tcTimeoutId, tcFetchSignal,
                 tcRetryCount>>

\* await sleep(...) ends and stream calls itself with retryCount + 1 (client.ts 247-254)
TcSleepEnds ==
  /\ TcFrame
  /\ tcPc = "sleeping"
  /\ tcRetryCount' = tcRetryCount + 1
  /\ tcPc' = "ready"
  /\ UNCHANGED <<cfgTimeout, tcOptionsSignal, tcControllerAborted, tcTimeoutId, tcFetchSignal,
                 tcChunks, tcThrown>>

TcNext ==
  \/ TcFetchIssued
  \/ CallerAborts
  \/ TimerFires
  \/ \E outcome \in HeaderOutcomes : TcFetchSettles(outcome)
  \/ \E result \in {"chunk", "done", "TypeError"} : TcReadSettles(result)
  \/ TcSleepEnds

\* the call is in flight: fetch() or a read of the body is awaited
TcInFlight == tcPc \in {"headers", "reading"}

\* C25: the signal of the caller and the timer are two sources of cancellation of
\* one transport call: while the call waits for the headers or reads the body, an
\* aborted signal of the caller means an aborted call, and so does the configured
\* time running out, for which the timer has to be running the whole time
C25_TwoCancellationSources ==
  TcInFlight =>
    /\ tcOptionsSignal = "aborted" => FetchSignalAborted
    /\ tcTimeoutId = "fired" => FetchSignalAborted
    /\ TimerArmed(cfgTimeout) => tcTimeoutId \in {"armed", "fired"}

(***************************************************************************)
(* Timbal.getSession: the cached session and the shared GET /me            *)
(***************************************************************************)
\* the session GET /me gives: which request fetched it, with which session token
Session(req, token) == [req |-> req, token |-> token]

\* the calls of getSession of one behaviour
GsCallIds == 1..(MaxCalls + 1)

\* cached and joined are history: _session at the call, and the state the request
\* had when the call took its promise ("new" for the request of the call itself)
NoCall == [pc |-> "idle", forceRefresh |-> FALSE, promise |-> 0, result |-> NoSession,
           cached |-> NoSession, joined |-> "none"]

GsIdle ==
  /\ gsSession = NoSession
  /\ gsSessionPromise = 0
  /\ gsRequests = <<>>
  /\ gsCalls = [c \in GsCallIds |-> NoCall]

\* the requests that are not settled
GsPending == {q \in 1..Len(gsRequests) : gsRequests[q].state \in {"waiting", "inflight"}}

\* if (this._session && !forceRefresh) (client.ts 321)
servedFromCache(forceRefresh) == gsSession # NoSession /\ ~forceRefresh

\* if (this._sessionPromise && !forceRefresh) (client.ts 326)
\* the mutant: a call never joins the request under way
joinsSessionPromiseNever(forceRefresh) == FALSE

joinsSessionPromise(forceRefresh) == gsSessionPromise # 0 /\ ~forceRefresh

\* getSession(forceRefresh) up to its return statement (client.ts 320-338): the
\* cached session, the promise of the request under way, or a new request, which
\* waits for _ready inside _fetch (117)
getSession(c, forceRefresh) ==
  /\ GsFrame
  /\ gsCalls[c].pc = "idle"
  /\ \A b \in GsCallIds : b < c => gsCalls[b].pc # "idle"
  /\ LET call == [NoCall EXCEPT !.forceRefresh = forceRefresh, !.cached = gsSession,
                                !.joined = IF servedFromCache(forceRefresh) THEN "none"
                                           ELSE IF joinsSessionPromise(forceRefresh)
                                           THEN gsRequests[gsSessionPromise].state
                                           ELSE "new"]
     IN  IF servedFromCache(forceRefresh)
         THEN /\ gsCalls' = [gsCalls EXCEPT ![c] =
                   [call EXCEPT !.pc = "returned", !.result = gsSession]]
              /\ UNCHANGED <<gsSession, gsSessionPromise, gsRequests>>
         ELSE IF joinsSessionPromise(forceRefresh)
         THEN /\ gsCalls' = [gsCalls EXCEPT ![c] =
                   IF gsRequests[gsSessionPromise].state = "rejected"
                   THEN [call EXCEPT !.pc = "threw", !.promise = gsSessionPromise]
                   ELSE [call EXCEPT !.pc = "awaiting", !.promise = gsSessionPromise]]
              /\ UNCHANGED <<gsSession, gsSessionPromise, gsRequests>>
         ELSE /\ gsRequests' = Append(gsRequests, [state |-> "waiting", token |-> ""])
              /\ gsSessionPromise' = Len(gsRequests) + 1
              /\ gsCalls' = [gsCalls EXCEPT ![c] =
                   [call EXCEPT !.pc = "awaiting", !.promise = Len(gsRequests) + 1]]
              /\ UNCHANGED gsSession

\* _fetch of the GET /me gets past await this._ready and sends the request with the
\* session token of that moment (client.ts 117-132)
GsDispatched(q) ==
  /\ GsFrame
  /\ q \in 1..Len(gsRequests)
  /\ gsRequests[q].state = "waiting"
  /\ tbIsReady
  /\ gsRequests' = [gsRequests EXCEPT ![q] = [state |-> "inflight", token |-> cfgSessionToken]]
  /\ UNCHANGED <<gsSession, gsSessionPromise, gsCalls>>

\* the then handler of a fulfilled request: what it caches
\* the mutant: nothing is cached
fulfilledSessionNotCached(session) == gsSession

fulfilledSession(session) == session

\* the request of GET /me settles (client.ts 328-335): fulfilled, the then handler
\* caches the session and sets _sessionPromise to null; rejected, the handler does
\* not run.  Every caller that awaits the promise goes on.
GsSettles(q, ok) ==
  /\ GsFrame
  /\ q \in 1..Len(gsRequests)
  /\ gsRequests[q].state = "inflight"
  /\ gsRequests' = [gsRequests EXCEPT ![q].state = IF ok THEN "fulfilled" ELSE "rejected"]
  /\ gsSession' = IF ok THEN fulfilledSession(Session(q, gsRequests[q].token)) ELSE gsSession
  /\ gsSessionPromise' = IF ok THEN 0 ELSE gsSessionPromise
  /\ gsCalls' = [c \in GsCallIds |->
       IF gsCalls[c].pc = "awaiting" /\ gsCalls[c].promise = q
       THEN [gsCalls[c] EXCEPT !.pc = IF ok THEN "returned" ELSE "threw",
                               !.result = IF ok THEN Session(q, gsRequests[q].token)
                                          ELSE NoSession]
       ELSE gsCalls[c]]

\* the session provider hands over the token of the session, and a later one
GsTokens == {"st1", "st2"}

\* calls of getSession() without forceRefresh, while the session changes
SessionNext ==
  \/ \E c \in GsCallIds : getSession(c, FALSE)
  \/ \E q \in 1..Len(gsRequests) : GsDispatched(q)
  \/ \E q \in 1..Len(gsRequests), ok \in BOOLEAN : GsSettles(q, ok)
  \/ \E token \in GsTokens : updateSessionToken(token)

\* calls of getSession with and without forceRefresh
ForcedSessionNext ==
  \/ \E c \in GsCallIds, forceRefresh \in BOOLEAN : getSession(c, forceRefresh)
  \/ \E q \in 1..Len(gsRequests) : GsDispatched(q)
  \/ \E q \in 1..Len(gsRequests), ok \in BOOLEAN : GsSettles(q, ok)
  \/ \E token \in GsTokens : updateSessionToken(token)

(***************************************************************************)
(* Claims about Timbal.getSession                                          *)
(***************************************************************************)
\* C31: with calls of getSession() without forceRefresh, at most one GET /me is
\* under way at a time, every caller that waits waits for that request, and every
\* caller that waited got what that request gave: its session, or its failure
C31_OneSessionRequest ==
  /\ Cardinality(GsPending) <= 1
  /\ \A c \in GsCallIds :
       LET call == gsCalls[c]
       IN  /\ call.pc = "awaiting" => call.promise \in GsPending
           /\ call.pc = "returned" /\ call.promise # 0 =>
                /\ gsRequests[call.promise].state = "fulfilled"
                /\ call.result = Session(call.promise, gsRequests[call.promise].token)
           /\ call.pc = "threw" => gsRequests[call.promise].state = "rejected"
  /\ \A c, d \in GsCallIds :
       /\ gsCalls[c].pc = "awaiting" /\ gsCalls[d].pc = "awaiting"
       => gsCalls[c].promise = gsCalls[d].promise

\* two calls overlapped with one request and both have its session
C31_Witness ==
  /\ Len(gsRequests) = 1
  /\ gsCalls[1].pc = "returned" /\ gsCalls[2].pc = "returned"
  /\ gsCalls[1].promise = 1 /\ gsCalls[2].promise = 1
  /\ gsCalls[1].result = Session(1, "st1")
  /\ gsCalls[2].result = Session(1, "st1")

\* C32: a call of getSession returns the cached session when there is one and
\* forceRefresh is false, and otherwise gets its session from a GET /me: its own,
\* or one that was under way when the call was made
C32_CachedOrFetched ==
  \A c \in GsCallIds :
    LET call == gsCalls[c]
    IN  call.pc # "idle" =>
          IF call.cached # NoSession /\ ~call.forceRefresh
          THEN call.pc = "returned" /\ call.result = call.cached /\ call.promise = 0
          ELSE /\ call.promise # 0
               /\ call.joined \in {"new", "waiting", "inflight"}
               /\ call.pc = "returned" =>
                    call.result = Session(call.promise, gsRequests[call.promise].token)

\* C33: once updateSessionToken(t) has returned, the session that getSession
\* caches, and the session a call of getSession returns, was fetched with t, not
\* with a token set before
C33_NoSessionOfOldToken ==
  [][ /\ gsSession' # NoSession => gsSession'.token = cfgSessionToken'
      /\ \A c \in GsCallIds :
           gsCalls[c].pc # "returned" /\ gsCalls'[c].pc = "returned"
           => gsCalls'[c].result.token = cfgSessionToken' ]_vars

(***************************************************************************)
(* validateUser: one validation per token under way                        *)
(***************************************************************************)
VuIdle ==
  /\ vuConfigured = FALSE
  /\ vuPromise = 0
  /\ vuToken = ""
  /\ vuValidations = <<>>
  /\ vuCalls = <<>>

\* the module is loaded; the application is built with or without VITE_TIMBAL_ORG_ID
\* and VITE_TIMBAL_PROJECT_ID
VuInit ==
  /\ vuConfigured \in BOOLEAN
  /\ vuPromise = 0
  /\ vuToken = ""
  /\ vuValidations = <<>>
  /\ vuCalls = <<>>

\* the access tokens validateUser is called with
VuTokens == {"at1", "at2"}

\* if (_validatePromise && _validateToken === token) (part_004 194)
sharesValidation(token) == vuPromise # 0 /\ vuToken = token

\* validateUser (part_004 188-215) up to its return: the promise under way for the
\* same token, or a new validation, which starts with fetchCurrentUser
validateUser(token) ==
  /\ VuFrame
  /\ Len(vuCalls) <= MaxCalls
  /\ IF sharesValidation(token)
     THEN /\ vuCalls' = Append(vuCalls, [token |-> token, validation |-> vuPromise,
                                         overlapped |-> {}])
          /\ UNCHANGED <<vuPromise, vuToken, vuValidations>>
     ELSE /\ vuCalls' = Append(vuCalls,
               [token |-> token, validation |-> Len(vuValidations) + 1,
                overlapped |-> {v \in 1..Len(vuValidations) :
                                  /\ vuValidations[v].pc \in {"user", "access"}
                                  /\ vuValidations[v].token = token}])
          /\ vuValidations' = Append(vuValidations, [token |-> token, pc |-> "user"])
          /\ vuToken' = token
          /\ vuPromise' = Len(vuValidations) + 1
  /\ UNCHANGED vuConfigured

\* finally (part_004 207-210)
VuFinally ==
  /\ vuPromise' = 0
  /\ vuToken' = ""

\* fetchCurrentUser settles (part_004 201-202): no user is "Invalid token"; with no
\* organisation and project configured checkProjectAccess returns at once (165)
VuUserFetched(v, found) ==
  /\ VuFrame
  /\ v \in 1..Len(vuValidations)
  /\ vuValidations[v].pc = "user"
  /\ IF found /\ vuConfigured
     THEN /\ vuValidations' = [vuValidations EXCEPT ![v].pc = "access"]
          /\ UNCHANGED <<vuPromise, vuToken>>
     ELSE /\ vuValidations' = [vuValidations EXCEPT ![v].pc = IF found THEN "user-ok" ELSE "threw"]
          /\ VuFinally
  /\ UNCHANGED <<vuConfigured, vuCalls>>

\* the HEAD request of checkProjectAccess settles (part_004 167-179)
VuAccessChecked(v, ok) ==
  /\ VuFrame
  /\ v \in 1..Len(vuValidations)
  /\ vuValidations[v].pc = "access"
  /\ vuValidations' = [vuValidations EXCEPT ![v].pc = IF ok THEN "user-ok" ELSE "threw"]
  /\ VuFinally
  /\ UNCHANGED <<vuConfigured, vuCalls>>

VuNext ==
  \/ \E token \in VuTokens : validateUser(token)
  \/ \E v \in 1..Len(vuValidations), found \in BOOLEAN : VuUserFetched(v, found)
  \/ \E v \in 1..Len(vuValidations), ok \in BOOLEAN : VuAccessChecked(v, ok)

\* the validations that are under way
VuUnderWay == {v \in 1..Len(vuValidations) : vuValidations[v].pc \in {"user", "access"}}

\* C34: two calls of validateUser with the same token that overlap share one
\* validation: no call starts a validation while one for its token is under way,
\* so no two validations under way have the same token
C34_OneValidationPerToken ==
  /\ \A c \in 1..Len(vuCalls) : vuCalls[c].overlapped = {}
  /\ \A v, w \in VuUnderWay : vuValidations[v].token = vuValidations[w].token => v = w

\* C37: stream sends its request again only for a failure before the first chunk:
\* once a chunk has been yielded the call only reads on, returns or throws, a
\* failed read is thrown as it is without a retry, and so chunks are yielded in
\* one attempt only
C37_NoRetryAfterChunk ==
  /\ [](tcChunks > 0 => tcPc \in {"reading", "returned", "threw"})
  /\ [][ /\ tcPc = "reading" /\ tcPc' # "reading" =>
              /\ tcPc' \in {"returned", "threw"}
              /\ tcRetryCount' = tcRetryCount
         /\ tcChunks > 0 => tcRetryCount' = tcRetryCount ]_vars

\* a chunk was yielded, the next read failed, and the error was thrown although
\* retries were left
C37_Witness ==
  /\ tcChunks > 0
  /\ tcPc = "threw"
  /\ tcThrown = OtherError("TypeError")
  /\ BelowRetryAttempts(tcRetryCount)

(***************************************************************************)
(* Specifications                                                          *)
(***************************************************************************)
\* one component runs, the others stay as constructed
StreamRunInit == SrInit /\ RqIdle /\ RtIdle /\ AfIdle /\ TcIdle /\ GsIdle /\ VuIdle
SpecStreamRun == StreamRunInit /\ [][SrNext]_vars

SpecMetadata == StreamRunInit /\ [][SrMetadataNext]_vars

HeadersStartInit == HeadersInit /\ SrIdle /\ RtIdle /\ AfIdle /\ TcIdle /\ GsIdle /\ VuIdle
SpecHeaders == HeadersStartInit /\ [][HeadersNext]_vars

RequestInit == RqInit /\ SrIdle /\ RtIdle /\ AfIdle /\ TcIdle /\ GsIdle /\ VuIdle
SpecRequest == RequestInit /\ [][RqNext]_vars

RecordsInit == RtInit /\ SrIdle /\ RqIdle /\ AfIdle /\ TcIdle /\ GsIdle /\ VuIdle
SpecRecords == RecordsInit /\ [][RecordsNext]_vars

FirstTurnInit == RtInit /\ SrIdle /\ RqIdle /\ AfIdle /\ TcIdle /\ GsIdle /\ VuIdle
SpecFirstTurn == FirstTurnInit /\ [][FirstTurnNext]_vars

RunIdInit == RtInit /\ SrIdle /\ RqIdle /\ AfIdle /\ TcIdle /\ GsIdle /\ VuIdle
SpecRunId == RunIdInit /\ [][RunIdNext]_vars

ConversationInit == RtInit /\ SrIdle /\ RqIdle /\ AfIdle /\ TcIdle /\ GsIdle /\ VuIdle
SpecConversation == ConversationInit /\ [][ConversationNext]_vars

\* the provider is mounted and idle; calls of authFetch run
AuthInit == RtInit /\ SrIdle /\ RqIdle /\ AfInit /\ TcIdle /\ GsIdle /\ VuIdle
SpecAuth == AuthInit /\ [][AfNext]_vars

\* one call of Timbal.stream
TransportInit == TcInit /\ TcClient /\ SrIdle /\ RtIdle /\ AfIdle /\ GsIdle /\ VuIdle
SpecTransport == TransportInit /\ [][TcNext]_vars

TurnsInit == RtInit /\ SrIdle /\ RqIdle /\ AfIdle /\ TcIdle /\ GsIdle /\ VuIdle
SpecTurns == TurnsInit /\ [][TurnsNext]_vars

EndingsInit == RtInit /\ SrIdle /\ RqIdle /\ AfIdle /\ TcIdle /\ GsIdle /\ VuIdle

\* What the event loop and the network are taken to do in the end: a continuation
\* that is ready runs (the lines of a chunk, a read with data or at the end of the
\* body, the rejection of an aborted await), every request is answered or fails,
\* and the server closes a body it has opened.  That the user submits or cancels
\* and that the server writes or the connection breaks is not required.
\* a continuation of the event loop that is ready
LoopStep ==
  \E r \in RunIds :
    \/ AbortRejects(r)
    \/ ReadChunk(r, Len(runs[r].wire))
    \/ ProcessNextLine(r)
    \/ ReadDone(r)

\* the network settles a request, the server closes a body
NetworkStep ==
  \E r \in RunIds :
    \/ \E res \in AuthResponses : Fetch1Settles(r, res)
    \/ \E ok \in BOOLEAN : RefreshSettles(r, ok)
    \/ \E res \in AuthResponses : Fetch2Settles(r, res)
    \/ BodyCloses(r)

EndingsFairness == WF_vars(LoopStep) /\ WF_vars(NetworkStep)

SpecEndings == EndingsInit /\ [][EndingsNext]_vars /\ EndingsFairness

\* a new client; calls of getSession run
SessionInit == GsIdle /\ RqIdle /\ SrIdle /\ RtIdle /\ AfIdle /\ TcIdle /\ VuIdle
SpecSession == SessionInit /\ [][SessionNext]_vars
SpecForcedSession == SessionInit /\ [][ForcedSessionNext]_vars

\* calls of validateUser run
ValidateInit == VuInit /\ GsIdle /\ RqIdle /\ SrIdle /\ RtIdle /\ AfIdle /\ TcIdle
SpecValidate == ValidateInit /\ [][VuNext]_vars

SpecLogout == AuthInit /\ [][LogoutNext]_vars

SpecOverlap == TurnsInit /\ [][OverlapNext]_vars

====
